---- MODULE Spec2Model ----
(***************************************************************************)
(* Model of the per-session media pipeline of xiaozhi-esp32-server.        *)
(*                                                                         *)
(* SpecAudio : the inbound WebRTC audio path of one device                 *)
(*             (AudioTrackProcessor -> AudioFrameHandler.process_audio_    *)
(*             frame -> VADHelper / ASRHelper) together with the control   *)
(*             messages that end an utterance (handleTextMessage listen,   *)
(*             data-channel stop command).                                 *)
(* SpecPacer : the outbound play-out path (sendAudioMessage, sendAudio,    *)
(*             send_tts_message) fed by the reply pipeline.                *)
(* SpecText  : the listen messages of handleTextMessage on the device's    *)
(*             WebSocket (start, stop, detect).                            *)
(* SpecSignal: WebRTC signalling (SignalingHandler) and the registry of    *)
(*             ConnectionManager: offers, ICE candidates, closing.         *)
(***************************************************************************)
EXTENDS Integers, Sequences, FiniteSets, TLC

VARIABLES
    \* ---- inbound audio path -------------------------------------------
    clients,        \* client ids with a WebRTCConnection (webrtc_connections keys)
    conn,           \* webrtc_connections: client id -> WebRTCConnection fields
    counter,        \* AudioFrameHandler.audio_packet_counters
    stop_requested, \* builtins.PUSH_TO_TALK_STOP_REQUESTED
    stop_client,    \* builtins.CLIENT_ID_FOR_STOP
    proc,           \* AudioTrackProcessor per client: _queue length and the
                    \* position of each coroutine that runs the frame callback
    ws,             \* ConnectionHandler of the device's WebSocket (fields that
                    \* handleTextMessage touches)
    track,          \* the frame format the client's audio track delivers
    used,           \* how much of each input budget the run has consumed
    hist,           \* history: what an observer of the session has seen
    \* ---- outbound play-out path ---------------------------------------
    sess,           \* the session fields the play-out path reads and writes
    audio_play_queue, \* segments handed to the pacer, not yet taken
    pacer,          \* position of the coroutine running sendAudioMessage
    reply,          \* the reply pipeline: segments produced so far
    sent,           \* everything sent on the session's transport, in order
    \* ---- text messages on the WebSocket -------------------------------
    config,         \* conn.config: the keys handleTextMessage reads
    wsout,          \* what handleTextMessage has sent on conn.websocket and
                    \* the chats it has started, in order
    \* ---- WebRTC signalling and the registry of ConnectionManager --------
    peer_connections,   \* client id -> RTCPeerConnection (index into pcs)
    webrtc_connections, \* client id -> the websocket its WebRTCConnection holds
    data_channels,      \* client id -> peer connection of its data channel
    audio_processors,   \* client id -> peer connection of its audio track
    pending_candidates, \* client id -> candidates waiting for a peer connection
    client_id_map,      \* signalling client id -> id taken from the offer
    session_map,        \* session id of an SDP -> client id
    pcs,                \* every RTCPeerConnection created so far
    sock,               \* the signalling sockets and their handler coroutines
    sigsent,            \* what has been sent on each signalling socket
    \* ---- the TTS provider shared by the sessions ------------------------
    tts,                \* attributes of the one TTSProvider instance
    files,              \* audio files on disk: file name -> what they hold
    job,                \* each session's reply thread: its position in
                        \* to_tts / audio_to_opus_data and what it got
    \* ---- control messages that are not well formed ----------------------
    ctl,                 \* per text-message handler: the messages handled and
                        \* what the handler did with each
    \* ---- the task that retries sending the SDP answer -------------------
    answer_retry,        \* _retry_send_answer of one client: its locals, the
                        \* websocket of the client's WebRTCConnection, a clock
    \* ---- encoding outbound PCM to Opus ----------------------------------
    enc,                 \* the encode loop of the TTS provider: raw_data, the
                        \* loop index, and what the encoder was called with
    \* ---- role switching --------------------------------------------------
    rolesw,              \* one session: the class of its connection object,
                        \* its prompt and voice, and the replies of role
                        \* switches as they were handed to TTS
    \* ---- the role table --------------------------------------------------
    table,               \* one role storage: its class, roles, default_role_id,
                        \* the number of calls made and the latest call
    trk,                 \* one AudioTrackProcessor and the asr_audio of its
                        \* client: frames read, _queue, each reader's
                        \* position, the frames handed to on_frame
    vad,                 \* one connection as VADProvider.is_vad sees it: its
                        \* flags, client_audio_buffer, the clock, the call
    pace,                \* one call of sendAudio against the clock: the
                        \* clock, start_time, play_position, frames sent
    ans,                 \* the answer of one offer on its way to the client:
                        \* handle_offer's send paths, pending_answer, the
                        \* retry task, the answers the client has received
    registry                 \* the registries of the signalling handler and the
                        \* connection manager under client-chosen ids

audioVars == <<clients, conn, counter, stop_requested, stop_client, proc, ws,
               track, used, hist>>

pacerVars == <<sess, audio_play_queue, pacer, reply, sent>>

textVars == <<config, wsout>>

signalVars == <<peer_connections, webrtc_connections, data_channels,
                audio_processors, pending_candidates, client_id_map,
                session_map, pcs, sock, sigsent>>

ttsVars == <<tts, files, job>>

\* the media pipeline of one session, and the services beside it
mediaVars == <<audioVars, pacerVars, textVars, signalVars>>

ctlVars == <<ctl>>

retryVars == <<answer_retry>>

encVars == <<enc>>

roleswVars == <<rolesw>>

tableVars == <<table>>

trackVars == <<trk>>

vadVars == <<vad>>

paceVars == <<pace>>

answerVars == <<ans>>

registryVars == <<registry>>

serviceVars == <<ttsVars, ctlVars, retryVars, encVars, roleswVars, tableVars, trackVars, vadVars, paceVars, answerVars, registryVars>>

\* the services beside the one a specification is about
besideTts == <<ctlVars, retryVars, encVars, roleswVars, tableVars, trackVars, vadVars, paceVars, answerVars, registryVars>>
besideCtl == <<ttsVars, retryVars, encVars, roleswVars, tableVars, trackVars, vadVars, paceVars, answerVars, registryVars>>
besideRetry == <<ttsVars, ctlVars, encVars, roleswVars, tableVars, trackVars, vadVars, paceVars, answerVars, registryVars>>
besideEncode == <<ttsVars, ctlVars, retryVars, roleswVars, tableVars, trackVars, vadVars, paceVars, answerVars, registryVars>>
besideRoleSw == <<ttsVars, ctlVars, retryVars, encVars, tableVars, trackVars, vadVars, paceVars, answerVars, registryVars>>
besideTable == <<ttsVars, ctlVars, retryVars, encVars, roleswVars, trackVars, vadVars, paceVars, answerVars, registryVars>>
besideTrack == <<ttsVars, ctlVars, retryVars, encVars, roleswVars, tableVars, vadVars, paceVars, answerVars, registryVars>>
besideVad == <<ttsVars, ctlVars, retryVars, encVars, roleswVars, tableVars, trackVars, paceVars, answerVars, registryVars>>
besidePace == <<ttsVars, ctlVars, retryVars, encVars, roleswVars, tableVars, trackVars, vadVars, answerVars, registryVars>>
besideAnswer == <<ttsVars, ctlVars, retryVars, encVars, roleswVars, tableVars, trackVars, vadVars, paceVars, registryVars>>
besideRegistry == <<ttsVars, ctlVars, retryVars, encVars, roleswVars, tableVars, trackVars, vadVars, paceVars, answerVars>>

vars == <<mediaVars, serviceVars>>

\* ------------------------------------------------------------------ bounds
MaxFrames == 15      \* inbound audio frames per run
MaxStops == 1        \* stop requests (listen stop / data-channel stop) per run
MaxRecvCalls == 1    \* AudioTrackProcessor.recv() calls per run
CountCap == 6        \* vad_speech_count / vad_silence_count saturate here
MaxSegments == 2     \* segments of the one reply
LongSegment == 6     \* frames of a long segment (a short one has 1)
NotifyFrames == 2    \* frames of the stop notification sound
MaxTextLen == 2      \* characters of a listen detect text
MaxDetects == 2      \* listen detect messages with a text per run
MaxOffers == 3       \* offers received per run, over all signalling sockets
MaxCandidates == 1   \* ICE candidates received per signalling socket

\* ----------------------------------------------------------- program constants
MinChunks == 15          \* audio_frame_handler.py:333,359
PacketPeriod == 30       \* audio_frame_handler.py:333
SilenceFrames == 5       \* audio_frame_handler.py:533
VadBufferBytes == 64000  \* vad_helper.py:241
VadBufferFrames == 500   \* vad_helper.py:241
VadSilenceRuns == 3      \* vad_helper.py:305
PreBufferFrames == 5     \* sendAudioHandle.py:44

None == "none"
Devices == {"devA"}
Tasks == {"rx", "recv"}

\* audio_packet_counters is kept per client id by the one AudioFrameHandler
\* and outlives a WebRTCConnection: a new connection of a client id starts
\* with the count its earlier connections left.
CounterStarts == {0, MinChunks}

\* What one inbound frame yields in process_audio_frame (lines 183-227, 295-327):
\*   opus      original Opus bytes taken from frame.planes[0]
\*   converted PCM re-encoded by encode_pcm_to_opus
\*   pcm       PCM whose re-encoding failed (encode_pcm_to_opus returned None)
\*   fallback  nothing at first, then planes[0] re-encoded by the fallback path
\*   rawonly   nothing at first, planes[0] extracted but its re-encoding failed
\*   empty     no audio data at all
FrameKinds == {"opus", "converted", "pcm", "fallback", "rawonly", "empty"}
\* A track delivers one kind of frame for as long as it lasts; the runs
\* explored take a track of Opus packets or one whose PCM cannot be encoded.
TrackKinds == {"opus", "pcm"}

\* Bytes handed to the VAD for one frame: an Opus packet, or 20 ms of
\* 48 kHz stereo s16 PCM.
FrameBytes(kind) ==
    CASE kind \in {"opus", "converted", "fallback"} -> 160
      [] kind \in {"pcm", "rawonly"} -> 3840
      [] OTHER -> 0

Min(a, b) == IF a < b THEN a ELSE b
Bump(n) == Min(n + 1, CountCap)

\* ------------------------------------------------- WebRTCConnection.__init__
NewWebRTCConnection(websocket) ==
    [ client_listen_mode |-> "auto",
      client_have_voice |-> FALSE,
      client_voice_stop |-> FALSE,
      client_voice_stop_requested |-> FALSE,
      asr_server_receive |-> TRUE,
      asr_audio |-> <<>>,
      websocket |-> websocket,
      vad_speech_count |-> 0,
      vad_silence_count |-> 0,
      buf_bytes |-> 0,        \* audio_buffer['total_size']
      buf_frames |-> 0 ]      \* audio_buffer['frame_count']

\* WebRTCConnection.reset_vad_states
reset_vad_states(s) ==
    [s EXCEPT !.client_have_voice = FALSE,
              !.client_voice_stop = FALSE,
              !.client_voice_stop_requested = FALSE]

\* ------------------------------------------- process_audio_frame, step 5
\* Append the frame's data, tagged with its format, to asr_audio.
FormatOf(kind) ==
    CASE kind = "opus" -> "opus"
      [] kind = "converted" -> "opus-converted"
      [] kind = "pcm" -> "pcm"
      [] kind = "fallback" -> "opus-converted-fallback"
      [] OTHER -> None

Appended(kind) == FormatOf(kind) # None

\* A variant that drops the frame while the session is paused.
AppendInboundUnlessPaused(s, id, kind) ==
    IF Appended(kind) /\ s.asr_server_receive
    THEN [s EXCEPT !.asr_audio = Append(@, [id |-> id, format |-> FormatOf(kind)])]
    ELSE s

AppendInbound(s, id, kind) ==
    IF Appended(kind)
    THEN [s EXCEPT !.asr_audio = Append(@, [id |-> id, format |-> FormatOf(kind)])]
    ELSE s

\* process_audio_frame, "5." (lines 332-339): the 15-segment heuristic.
ChunkHeuristic(s, cnt) ==
    IF Len(s.asr_audio) >= MinChunks /\ cnt % PacketPeriod = 0
    THEN [s EXCEPT !.client_have_voice = TRUE, !.client_voice_stop = TRUE]
    ELSE s

\* process_audio_frame, "6." (lines 341-355): the global push-to-talk flag.
\* A variant that takes the flag for whichever client's frame comes next.
GlobalStopHitsAnyClient(c) == stop_requested

GlobalStopHits(c) ==
    stop_requested /\ (stop_client = None \/ stop_client = c)

ApplyGlobalStop(s, c) ==
    IF GlobalStopHits(c)
    THEN [s EXCEPT !.client_voice_stop = TRUE,
                   !.client_voice_stop_requested = TRUE]
    ELSE s

\* process_audio_frame, "7." (lines 358-363): the dispatch condition.
condition1(s) == s.client_voice_stop /\ Len(s.asr_audio) >= MinChunks
condition2(s) == s.client_voice_stop_requested /\ Len(s.asr_audio) > 0

\* process_audio_frame, lines 372-395: the list handed to speech_to_text.
RECURSIVE CollectForAsr(_)
CollectForAsr(audio) ==
    IF audio = <<>> THEN <<>>
    ELSE IF Head(audio).format = "pcm"
         THEN CollectForAsr(Tail(audio))
         ELSE <<Head(audio).id>> \o CollectForAsr(Tail(audio))

\* A variant of the reset at lines 468-471 that leaves asr_audio alone.
FinishDispatchKeepsAudio(s) ==
    [reset_vad_states(s) EXCEPT !.asr_server_receive = TRUE]

\* A variant of lines 468-471 without line 471.
FinishDispatchStaysPaused(s) ==
    [reset_vad_states([s EXCEPT !.asr_audio = <<>>])
        EXCEPT !.asr_server_receive = FALSE]

\* process_audio_frame, lines 468-471.
FinishDispatch(s) ==
    [reset_vad_states([s EXCEPT !.asr_audio = <<>>])
        EXCEPT !.asr_server_receive = TRUE]

\* ------------------------------------------------------- VADHelper.process
\* The merged chunk VADHelper.process adds to asr_audio carries no inbound
\* frame id of its own: it is the concatenation of the buffered frames.
MergedChunk == [id |-> 0, format |-> "opus-vad-processed"]

\* Returns the connection after the call; is_speech is the verdict of the VAD
\* model on the merged buffer (read only when the buffer is processed).
VadBuffered(s, bytes) ==
    [s EXCEPT !.buf_bytes = @ + bytes, !.buf_frames = @ + 1]

VadThreshold(s) ==
    s.buf_bytes >= VadBufferBytes \/ s.buf_frames >= VadBufferFrames

VadMerged(s, is_speech) ==
    LET e == [s EXCEPT !.buf_bytes = 0, !.buf_frames = 0] IN
    IF is_speech
    THEN [e EXCEPT !.asr_audio = Append(@, MergedChunk),
                   !.client_have_voice = TRUE,
                   !.vad_speech_count = Bump(@),
                   !.vad_silence_count = 0]
    ELSE IF e.client_have_voice
         THEN LET q == [e EXCEPT !.vad_silence_count = Bump(@)] IN
              IF q.vad_silence_count >= VadSilenceRuns
                 /\ q.vad_speech_count > 0 /\ Len(q.asr_audio) > 0
              THEN [q EXCEPT !.client_voice_stop = TRUE]
              ELSE q
         ELSE e

\* The value VADHelper.process returns as is_speech.
VadVerdict(s, bytes, is_speech) ==
    /\ s.asr_server_receive
    /\ VadThreshold(VadBuffered(s, bytes))
    /\ is_speech

VadProcess(s, bytes, is_speech) ==
    IF ~s.asr_server_receive THEN s
    ELSE LET b == VadBuffered(s, bytes) IN
         IF VadThreshold(b) THEN VadMerged(b, is_speech) ELSE b

\* process_audio_frame, lines 474-545: the regular (no dispatch) branch.
RegularVad(s, kind, is_speech) ==
    IF kind = "empty" THEN s
    ELSE LET v == VadProcess(s, FrameBytes(kind), is_speech) IN
         IF VadVerdict(s, FrameBytes(kind), is_speech)
         THEN [v EXCEPT !.client_have_voice = TRUE,
                        !.vad_speech_count = Bump(@)]
         ELSE LET q == [v EXCEPT !.vad_silence_count = Bump(@)] IN
              IF q.vad_silence_count > SilenceFrames /\ q.client_have_voice
              THEN [q EXCEPT !.client_voice_stop = TRUE]
              ELSE q

\* ------------------------------------------ state of the play-out path
\* A segment is what the reply pipeline hands to the pacer:
\* (segment_index, text, opus_frames); n is the number of frames.
Texts == {"hi", "bye"}
NoSegment == [index |-> 0, text |-> None, n |-> 0]
NotifySound == [index |-> 0, text |-> None, n |-> NotifyFrames]

\* WebRTCConnection.__init__, the fields of the play-out path. notify is
\* conn.config["enable_stop_tts_notify"]; closed says conn.close() has run.
NewSession(notify, close_after_chat) ==
    [ client_abort |-> FALSE,
      llm_finish_task |-> FALSE,
      tts_first_text_index |-> 0,
      tts_last_text_index |-> 0,
      close_after_chat |-> close_after_chat,
      notify |-> notify,
      closed |-> FALSE ]

\* pacer.pc is the await the coroutine is suspended at:
\*   idle   waiting for a segment on audio_play_queue
\*   start  websocket.send of sentence_start
\*   pre    websocket.send of a pre-buffered frame
\*   loop   top of the loop over the remaining frames
\*   sleep  asyncio.sleep before a remaining frame
\*   end    websocket.send of sentence_end
\*   stop   websocket.send of the tts stop message
\*   close  conn.close()
\* pacer.audio is what sendAudio is playing (the segment or the notification
\* sound), pacer.i the number of its frames sent, pacer.interrupted whether
\* sendAudio has left a segment at the client_abort check, pacer.done the
\* index of the last segment whose sendAudioMessage has returned.
NewPacer ==
    [pc |-> "idle", seg |-> NoSegment, audio |-> NoSegment, i |-> 0,
     interrupted |-> FALSE, done |-> 0]

NewReply == [produced |-> <<>>]

\* ------------------------------------------------- text message state
\* A text is a sequence of characters; "!" stands for any punctuation mark.
Chars == {"a", "!"}
WakeupWords == {<<"a">>}

\* conn.config as read at textHandle.py lines 120-122 and
\* sendAudioHandle.py line 90; wakeup_words is a list of texts.
NewConfig(words, greeting, notify) ==
    [wakeup_words |-> words, enable_greeting |-> greeting,
     enable_stop_tts_notify |-> notify]

TextIdle ==
    /\ config = NewConfig({}, TRUE, FALSE)
    /\ wsout = <<>>

\* ---------------------------------------------------- signalling state
Sockets == {"s1", "s2"}
ClientIds == {"u1", "u2", "dev"}
SessionIds == {"sess"}
NoPc == 0

\* SignalingHandler.handle_websocket lines 55-58: the client id of a
\* signalling connection (here one that the server generates per socket).
SignalId(s) == IF s = "s1" THEN "u1" ELSE "u2"

\* A call of handle_offer in progress: the client id it settled on, the peer
\* connection close_connection fetched, the one it created, and the
\* session id of the offer's SDP.
NoCall == [cid |-> None, old |-> NoPc, new |-> NoPc, session |-> None]

\* state : "new" before the connection, "open", "done" after the transport
\*         has closed and handle_websocket has returned
\* pc    : where the socket's message handler is
\* got   : the candidates received for the socket's current peer connection
\* mypc  : the peer connection made for the socket's latest answered offer
NewSocket ==
    [state |-> "new", pc |-> "idle", cur |-> NoCall, ncand |-> 0, got |-> {},
     mypc |-> NoPc, noffers |-> 0]

SignalIdle ==
    /\ peer_connections = [id \in ClientIds |-> NoPc]
    /\ webrtc_connections = [id \in ClientIds |-> None]
    /\ data_channels = [id \in ClientIds |-> NoPc]
    /\ audio_processors = [id \in ClientIds |-> NoPc]
    /\ pending_candidates = [id \in ClientIds |-> <<>>]
    /\ client_id_map = [id \in ClientIds |-> None]
    /\ session_map = [x \in SessionIds |-> None]
    /\ pcs = <<>>
    /\ sock = [s \in Sockets |-> NewSocket]
    /\ sigsent = [s \in Sockets |-> <<>>]

\* ------------------------------------------------- the shared TTS provider
\* WebSocketServer builds one TTS provider (websocket_server.py line 25) and
\* hands that instance to the ConnectionHandler of every connection (lines
\* 90-99): all sessions call to_tts and audio_to_opus_data on one object.
TtsSessions == {"A", "B"}
MaxTtsSegments == 1      \* segments each session has synthesised per run
MaxRepeatTime == 5       \* tts/base.py:28

\* The text of segment k of session s, and the audio the provider makes of a
\* text: audio is known by the text it speaks.
TtsText(s, k) == <<s, k>>
AudioOf(text) == [speaks |-> text]
NotifyAudio == [speaks |-> <<"notify", 0>>]

\* generate_filename (doubao.py 36-40): a fresh uuid per call, so the file of
\* one to_tts call is never the file of another.
TmpFile(s, k) == <<s, k>>
stop_tts_notify_voice == <<"notify", 0>>
NoFile == <<"none", 0>>
NoAudio == [speaks |-> <<"none", 0>>]

\* pc              : idle   between two segments
\*                   loop   in the retry loop of to_tts (lines 34-51)
\*                   after  behind the loop (lines 53-63)
\*                   ret    to_tts has returned `ret`
\* k               : index of the segment at hand
\* max_repeat_time, opus_data_result, tmp_file : the locals of to_tts
\* calls           : text_to_speak calls made for the segment at hand
\* raised          : the last text_to_speak call raised
\* got             : what audio_to_opus_data has returned to the session,
\*                   each with the audio the session asked for
\* notified        : the session has converted its stop notification sound
NewJob ==
    [pc |-> "idle", k |-> 0, max_repeat_time |-> 0,
     opus_data_result |-> NoAudio, tmp_file |-> NoFile, ret |-> NoFile,
     calls |-> 0, raised |-> FALSE, got |-> {}, notified |-> FALSE]

TtsIdle ==
    /\ tts = [_direct_opus_data |-> NoAudio]
    /\ files = [f \in {stop_tts_notify_voice} |-> NotifyAudio]
    /\ job = [s \in TtsSessions |-> NewJob]

\* ------------------------------------------------ text-message handlers
\* handleTextMessage (the device's WebSocket) and SignalingHandler.
\* handle_text_message (the signalling socket).
Handlers == {"websocket", "signaling"}
MaxControl == 2          \* control messages per handler and run

\* A text message as the handlers see it: whether json.loads accepts it,
\* what it yields (an object or a bare number), and the type field of an
\* object (None when it has none).
\*   iot / ping : a type the handler of the websocket / signalling socket
\*                supports, in a message with no further field
\*   bogus      : a type no handler supports
ControlMessages ==
    {[json |-> "invalid", type |-> None], [json |-> "number", type |-> None]}
        \cup [json : {"object"}, type : {None, "bogus", "iot", "ping"}]

CtlIdle == ctl = [h \in Handlers |-> <<>>]

\* --------------------------------------------- _retry_send_answer
MaxRetries == 10         \* connection_manager.py:1138
RetryIntervalMs == 1000  \* connection_manager.py:1138
ConnectedPauseMs == 200  \* connection_manager.py:1196
MaxWsChanges == 2        \* times the client's websocket closes or is replaced

\* handle_offer has stored pending_answer and created the task (lines
\* 666-673), which it does when conn.websocket is open.
\* pc        : try    at the top of the while loop (line 1178)
\*             sleep  in asyncio.sleep(retry_interval) (line 1230)
\*             sent   returned True, failed  returned False
\* now       : milliseconds since the task started
\* attempts  : passes of the loop begun so far; last_at: when the latest began
\* gap       : the longest time between the beginning of two passes in a row
NewAnswerRetry ==
    [pc |-> "try", retries |-> 0, websocket |-> "open",
     pending_connected_message |-> TRUE, changes |-> 0,
     now |-> 0, attempts |-> 0, last_at |-> 0, gap |-> 0]

RetryIdle == answer_retry = NewAnswerRetry

\* --------------------------------------------------- PCM to Opus frames
OutputSampleRate == 16000 \* tts/base.py:104
FrameDuration == 20       \* tts/base.py:118
MaxPcmBytes == 1300       \* length of raw_data: up to two windows and a bit

\* frame_size, in samples (base.py line 119, doubao.py line 112).
frame_size == (OutputSampleRate * FrameDuration) \div 1000

\* raw_data of a given length: 16-bit mono PCM whose bytes are told apart
\* by their position and are never zero, so padding can be recognised.
RawData(len) == [i \in 1..len |-> (i % 255) + 1]

\* raw_data[i : i + n] of Python: at most n bytes from offset i.
Slice(data, i, n) == SubSeq(data, i + 1, Min(i + n, Len(data)))

\* A variant of the padding that leaves a short window as it is.
PadUnpadded(chunk) == chunk

\* Lines 131-133 (doubao.py 125-127): a short window is filled up with
\* zero bytes to frame_size * 2.
Pad(chunk) ==
    IF Len(chunk) < frame_size * 2
    THEN chunk \o [k \in 1..(frame_size * 2 - Len(chunk)) |-> 0]
    ELSE chunk

\* i      : the loop variable of "for i in range(0, len(raw_data), 640)"
\* calls  : the arguments of every encoder.encode call, in order
NewEncode(len) ==
    [pc |-> "loop", raw_data |-> RawData(len), i |-> 0, calls |-> <<>>]

EncodeIdle == enc = NewEncode(0)

\* --------------------------------------------------------- change_role
\* The object handed to change_role as conn is the session's connection:
\*   ConnectionHandler  (core/connection.py) has change_system_prompt and
\*                      change_tts_voice
\*   WebRTCConnection   (webrtc_connection.py 20-272) defines neither
ConnKinds == {"ConnectionHandler", "WebRTCConnection"}
MaxRoleSwitches == 2     \* role-switch intents per run

\* Role names: in the role table (role_storage.roles, by name) and in the
\* prompts dictionary of change_role.py (lines 22-40).
\*   teacher  in both, the table entry has a voice
\*   scout    in both, the table entry has no voice
\*   pirate   in the table only, with a voice
\*   ghost    in neither
RoleNames == {"teacher", "scout", "pirate", "ghost"}
StoredRoles == {"teacher", "scout", "pirate"}
PromptRoles == {"teacher", "scout"}
AssistantNames == {"Lily", "Max"}
VoiceOf(role) == IF role \in {"teacher", "pirate"} THEN <<"voice", role>> ELSE None

\* prompt.replace("{{assistant_name}}", role_name) (lines 91, 122).
PromptFor(role, role_name) == <<"prompt", role, role_name>>

NewRoleSwitch(kind) ==
    [kind |-> kind, prompt |-> <<"prompt", "default", "default">>,
     voice |-> <<"voice", "default">>, handed |-> <<>>]

RoleSwitchIdle == rolesw = NewRoleSwitch("ConnectionHandler")

\* ------------------------------------------------------- the role table
\* RoleStorage (role/role_storage.py) and SimpleRoleStorage
\* (role/test_role_module.py) keep the table in self.roles.
Storages == {"RoleStorage", "SimpleRoleStorage"}
RoleIds == {"default", "r1"}
MaxRoleOps == 3          \* calls on the table per run

\* A role object: its name stands for name, description, prompt and voice;
\* is_default is "absent" when the object has no such key.
RoleDatas == [name : {"n1", "n2"}, is_default : {"absent", "true", "false"}]
NoRole == [name |-> "none", is_default |-> "absent"]
NoRoles == [x \in {} |-> NoRole]

NoTableCall ==
    [op |-> "none", role_id |-> None, role_data |-> NoRole, ok |-> FALSE,
     before |-> NoRoles]

\* The table as __init__ leaves it: with the default role written by
\* _initialize_default_roles and _save_roles (role_storage.py 74-108), or,
\* with has_default false, as loaded from a file of roles none of which is
\* marked is_default (lines 55-62). SimpleRoleStorage has no
\* default_role_id (test_role_module.py 33-66).
NewTable(storage, has_default) ==
    [storage |-> storage,
     roles |-> [x \in {"default"} |->
                  [name |-> "n1",
                   is_default |-> IF has_default THEN "true" ELSE "absent"]],
     default_role_id |-> IF storage = "RoleStorage" /\ has_default
                         THEN "default" ELSE None,
     ops |-> 0, last |-> NoTableCall]

TableIdle == table = NewTable("RoleStorage", TRUE)

\* ------------------------------------------- AudioTrackProcessor, by frame
MaxTrackFrames == 4   \* frames the track delivers in a run

\* Frames are numbered in the order the track delivers them. passed lists
\* the frames handed to on_frame, raised the frames whose callback ended in
\* an exception.
NewTrack ==
    [ next |-> 0,
      queue |-> <<>>,
      pc |-> [t \in Tasks |-> "idle"],
      asr_audio |-> <<>>,
      passed |-> <<>>,
      raised |-> {} ]

TrackIdle == trk = NewTrack

\* -------------------------------------------------- VADProvider (silero)
WindowBytes == 512 * 2            \* silero.py line 53
silence_threshold_ms == 1000      \* silero.py line 25, the default
TickMs == silence_threshold_ms \div 2   \* the clock moves in steps of this size
MaxVadCalls == 3                  \* calls of is_vad in a run
MaxTicks == 4                     \* clock steps in a run
\* Sizes of the PCM handed to one call: a 20 ms and a 60 ms frame at 16 kHz.
PcmSizes == {640, 1920}

\* time.time() * 1000 when the run starts: the epoch lies further back than
\* any threshold.
StartMs == 2 * silence_threshold_ms

\* client_have_voice_last_time starts at 0, which stands for a clock value
\* older than any threshold. window is the verdict on the window handled
\* last ("none" before the
\* first), spoken_at the clock at the last window classified as speech (0
\* if there was none): both are observations, not fields of the connection.
NewVad ==
    [ client_have_voice |-> FALSE,
      client_voice_stop |-> FALSE,
      client_have_voice_last_time |-> 0,
      client_audio_buffer |-> 0,
      now |-> StartMs,
      pc |-> "idle",
      have_voice_local |-> FALSE,
      calls |-> 0,
      window |-> "none",
      spoken_at |-> 0 ]

VadIdle == vad = NewVad

\* ----------------------------------------------- sendAudio and the clock
frame_duration == 20   \* ms, sendAudioHandle.py line 34
MaxDelayMs == 100      \* sendAudioHandle.py lines 61-62 (0.1 s)
StepMs == frame_duration \div 2   \* the clock moves in steps of this size
MaxPaceFrames == 7     \* frames of the longest segment
MaxStallSteps == 1     \* clock steps one await can take beyond its due time
StartTimes == {0, 3 * StepMs}

\* sent_at lists the clock at each send, waits the delays slept, both as
\* observations. Times are in ms.
NewPace ==
    [ pc |-> "idle", now |-> 0, start_time |-> 0, play_position |-> 0,
      n |-> 0, i |-> 0, wake_at |-> 0, sent_at |-> <<>>, waits |-> <<>> ]

PaceIdle == pace = NewPace

\* ------------------------------------------ the answer of one offer
MaxAssociates == 1     \* later associate_websocket calls for the client

\* websocket is handle_offer's parameter, conn whether
\* webrtc_connections holds the client, conn_websocket its websocket field,
\* open the sockets that are open, sent_answer the local of handle_offer,
\* task the _retry_send_answer task; delivered counts the answer messages
\* sent to the client, an observation.
NewAnswer(websocket, has_conn, conn_websocket, open) ==
    [ pc |-> "path1", websocket |-> websocket, conn |-> has_conn,
      conn_websocket |-> conn_websocket, open |-> open,
      sent_answer |-> FALSE, pending_answer |-> FALSE,
      task |-> "none", retries |-> 0, associates |-> 0, delivered |-> 0 ]

AnswerIdle == ans = NewAnswer(None, FALSE, None, {})

\* --------------------------------- registries under client-chosen ids
\* The websocket requests to the signalling endpoint, the client ids they
\* may bring in the query or a header (signaling.py line 56), and the
\* client ids there are: the brought ones and, for a request that brings
\* none, a fresh uuid, written as the request's own name.
Requests == {"r1", "r2", "r3"}
BroughtIds == {"dev", "dev_2"}
RegistryIds == Requests \cup BroughtIds
Labels == {"audio", "control"}

\* A string as the sequence of its parts, "_" being a part of its own.
Parts(str) == IF str = "dev_2" THEN <<"dev", "_", "2">> ELSE <<str>>

\* str.startswith(prefix) on such sequences.
startswith(str, prefix) ==
    /\ Len(prefix) <= Len(str)
    /\ SubSeq(str, 1, Len(prefix)) = prefix

\* f"{client_id}_{channel_id}" (connection_manager.py line 123) and
\* f"{client_id}_" (line 1132).
ChannelKey(client_id, channel_id) ==
    Parts(client_id) \o <<"_">> \o Parts(channel_id)

KeyPrefix(client_id) == Parts(client_id) \o <<"_">>

\* state, id, seq : per request, where handle_websocket is, its client id,
\*                  and its place in the order of the connects
\* websockets, sessions : SignalingHandler's dicts (sessions by the request
\*                  that made the session id)
\* peer_connections, audio_processors, webrtc_connections, data_channels :
\*                  ConnectionManager's dicts; a peer connection is named by
\*                  the request whose offer created it, a connection object
\*                  by the websocket it holds, a data channel by its key,
\*                  its peer connection and that one's client id
\* made, closed   : the peer connections created and closed so far
NewRegistry ==
    [ state |-> [r \in Requests |-> "new"],
      id |-> [r \in Requests |-> None],
      seq |-> [r \in Requests |-> 0],
      websockets |-> [c \in RegistryIds |-> None],
      sessions |-> [r \in Requests |-> None],
      peer_connections |-> [c \in RegistryIds |-> None],
      audio_processors |-> [c \in RegistryIds |-> None],
      webrtc_connections |-> [c \in RegistryIds |-> None],
      data_channels |-> {},
      made |-> {}, closed |-> {} ]

RegistryIdle == registry = NewRegistry

ServiceIdle == TtsIdle /\ CtlIdle /\ RetryIdle /\ EncodeIdle /\ RoleSwitchIdle /\ TableIdle /\ TrackIdle /\ VadIdle /\ PaceIdle /\ AnswerIdle /\ RegistryIdle

BesideTtsIdle == CtlIdle /\ RetryIdle /\ EncodeIdle /\ RoleSwitchIdle /\ TableIdle /\ TrackIdle /\ VadIdle /\ PaceIdle /\ AnswerIdle /\ RegistryIdle
BesideCtlIdle == TtsIdle /\ RetryIdle /\ EncodeIdle /\ RoleSwitchIdle /\ TableIdle /\ TrackIdle /\ VadIdle /\ PaceIdle /\ AnswerIdle /\ RegistryIdle
BesideRetryIdle == TtsIdle /\ CtlIdle /\ EncodeIdle /\ RoleSwitchIdle /\ TableIdle /\ TrackIdle /\ VadIdle /\ PaceIdle /\ AnswerIdle /\ RegistryIdle
BesideEncodeIdle == TtsIdle /\ CtlIdle /\ RetryIdle /\ RoleSwitchIdle /\ TableIdle /\ TrackIdle /\ VadIdle /\ PaceIdle /\ AnswerIdle /\ RegistryIdle
BesideRoleSwIdle == TtsIdle /\ CtlIdle /\ RetryIdle /\ EncodeIdle /\ TableIdle /\ TrackIdle /\ VadIdle /\ PaceIdle /\ AnswerIdle /\ RegistryIdle
BesideTableIdle == TtsIdle /\ CtlIdle /\ RetryIdle /\ EncodeIdle /\ RoleSwitchIdle /\ TrackIdle /\ VadIdle /\ PaceIdle /\ AnswerIdle /\ RegistryIdle
BesideTrackIdle == TtsIdle /\ CtlIdle /\ RetryIdle /\ EncodeIdle /\ RoleSwitchIdle /\ TableIdle /\ VadIdle /\ PaceIdle /\ AnswerIdle /\ RegistryIdle
BesideVadIdle == TtsIdle /\ CtlIdle /\ RetryIdle /\ EncodeIdle /\ RoleSwitchIdle /\ TableIdle /\ TrackIdle /\ PaceIdle /\ AnswerIdle /\ RegistryIdle
BesidePaceIdle == TtsIdle /\ CtlIdle /\ RetryIdle /\ EncodeIdle /\ RoleSwitchIdle /\ TableIdle /\ TrackIdle /\ VadIdle /\ AnswerIdle /\ RegistryIdle
BesideAnswerIdle == TtsIdle /\ CtlIdle /\ RetryIdle /\ EncodeIdle /\ RoleSwitchIdle /\ TableIdle /\ TrackIdle /\ VadIdle /\ PaceIdle /\ RegistryIdle
BesideRegistryIdle == TtsIdle /\ CtlIdle /\ RetryIdle /\ EncodeIdle /\ RoleSwitchIdle /\ TableIdle /\ TrackIdle /\ VadIdle /\ PaceIdle /\ AnswerIdle

\* ------------------------------------------------------------ observations
\* hist[c].expected : ids of the inbound chunks appended to asr_audio since the
\*                    previous dispatch began (or since the session started)
\* hist[c].last     : the most recent dispatch: whether the list handed to
\*                    speech_to_text was equal to expected (exact) and held
\*                    anything (some), the listen mode the client had asked
\*                    for, and whether client_voice_stop_requested was set,
\*                    the flag that only a client's stop request sets
\* hist[c].out      : messages sent on conn.websocket
\* hist[c].chat     : "none", "submitted" once conn.chat has been handed to
\*                    conn.executor, "called" once a worker has called it
\* hist[c].asr      : what speech_to_text has returned since the latest
\*                    audio frame was taken in: "empty" if its latest
\*                    return was "", "none" otherwise
NoDispatch ==
    [valid |-> FALSE, exact |-> TRUE, some |-> FALSE, mode |-> "auto",
     explicit |-> FALSE]

NewHist ==
    [expected |-> <<>>, last |-> NoDispatch, out |-> <<>>, chat |-> "none",
     asr |-> "none"]

NewConnectionHandler ==
    [client_listen_mode |-> "auto", client_have_voice |-> FALSE,
     client_voice_stop |-> FALSE, asr_audio |-> <<>>,
     asr_server_receive |-> TRUE]

NewProcessor == [queue_len |-> 0, pc |-> [t \in Tasks |-> "idle"]]

InitAudio ==
    /\ clients = Devices
    /\ \E w \in BOOLEAN : conn = [c \in Devices |-> NewWebRTCConnection(w)]
    /\ counter \in [Devices -> CounterStarts]
    /\ stop_requested = FALSE
    /\ stop_client = None
    /\ proc = [c \in Devices |-> NewProcessor]
    /\ ws = [d \in Devices |-> NewConnectionHandler]
    /\ track \in [Devices -> TrackKinds]
    /\ used = [frames |-> 0, stops |-> 0, recv |-> 0]
    /\ hist = [c \in Devices |-> NewHist]
    /\ sess = NewSession(FALSE, FALSE)
    /\ audio_play_queue = <<>>
    /\ pacer = NewPacer
    /\ reply = NewReply
    /\ sent = <<>>
    /\ TextIdle
    /\ SignalIdle
    /\ ServiceIdle

\* ---------------------------------- AudioFrameHandler.process_audio_frame
\* One call, from its entry up to its first real suspension (the awaited
\* provider call inside ASRHelper.speech_to_text) or to its return.
\* ASRHelper.speech_to_text returns "" without suspending when the list it
\* is given holds no bytes (asr_helper.py lines 40-58).
ProcessFrame(c, t, kind, is_speech, queued) ==
    LET cnt == counter[c] + 1
        s1 == AppendInbound(conn[c], cnt, kind)
        s2 == ChunkHeuristic(s1, cnt)
        s3 == ApplyGlobalStop(s2, c)
        exp == IF Appended(kind) THEN Append(hist[c].expected, cnt)
               ELSE hist[c].expected
        chunks == CollectForAsr(s3.asr_audio)
        paused == [s3 EXCEPT !.asr_server_receive = FALSE]
    IN
    /\ counter' = [counter EXCEPT ![c] = cnt]
    /\ stop_requested' = IF GlobalStopHits(c) THEN FALSE ELSE stop_requested
    /\ IF condition1(s3) \/ condition2(s3)
       THEN /\ conn' = [conn EXCEPT ![c] =
                   IF chunks = <<>> THEN FinishDispatch(paused) ELSE paused]
            /\ proc' = [proc EXCEPT ![c].queue_len = @ + queued,
                   ![c].pc[t] = IF chunks = <<>> THEN "idle" ELSE "asr"]
            /\ hist' = [hist EXCEPT ![c].expected = <<>>,
                   ![c].last = [valid |-> TRUE, exact |-> (chunks = exp),
                                some |-> (chunks # <<>>),
                                mode |-> ws[c].client_listen_mode,
                                explicit |-> s3.client_voice_stop_requested],
                   ![c].asr = IF chunks = <<>> THEN "empty" ELSE "none"]
       ELSE /\ conn' = [conn EXCEPT ![c] = RegularVad(s3, kind, is_speech)]
            /\ proc' = [proc EXCEPT ![c].queue_len = @ + queued]
            /\ hist' = [hist EXCEPT ![c].expected = exp, ![c].asr = "none"]
    /\ used' = [used EXCEPT !.frames = @ + 1,
                            !.recv = IF t = "recv" THEN @ + 1 ELSE @]
    /\ UNCHANGED <<serviceVars, signalVars, textVars, pacerVars, clients, stop_client, ws, track>>

\* AudioTrackProcessor._receive_frames: one turn of the loop. The frame is
\* put on _queue and the callback is awaited before the next track.recv().
RxFrame(c) ==
    /\ proc[c].pc["rx"] = "idle"
    /\ used.frames < MaxFrames
    /\ \E is_speech \in BOOLEAN :
           ProcessFrame(c, "rx", track[c], is_speech, 1)

\* AudioTrackProcessor.recv with a frame waiting on _queue: no callback.
RecvQueued(c) ==
    /\ proc[c].queue_len > 0
    /\ used.recv < MaxRecvCalls
    /\ proc' = [proc EXCEPT ![c].queue_len = @ - 1]
    /\ used' = [used EXCEPT !.recv = @ + 1]
    /\ UNCHANGED <<serviceVars, signalVars, textVars, pacerVars, clients, conn, counter, stop_requested, stop_client, ws,
                   track, hist>>

\* AudioTrackProcessor.recv with _queue empty: it reads the track itself and
\* awaits the callback for that frame.
RecvFrame(c) ==
    /\ proc[c].queue_len = 0
    /\ proc[c].pc["recv"] = "idle"
    /\ used.recv < MaxRecvCalls
    /\ used.frames < MaxFrames
    /\ \E is_speech \in BOOLEAN :
           ProcessFrame(c, "recv", track[c], is_speech, 0)

\* What the awaited call asr_provider.speech_to_text (asr_helper.py line
\* 85) can do:
\*   text   returns a transcript
\*   blank  returns a text of white space only
\*   none   returns None as the text
\*   raise  raises, or returns something that is no pair
ProviderResults == {"text", "blank", "none", "raise"}

\* A variant that hands on what the provider gave without the test of
\* line 88 and the handler of line 98.
speech_to_text_unchecked(result) ==
    CASE result = "text" -> "hello"
      [] result = "blank" -> " "
      [] OTHER -> "error"

\* ASRHelper.speech_to_text from the provider call on (lines 85-103): the
\* text it returns.
speech_to_text(result) ==
    IF result = "text" THEN "hello" ELSE ""

\* The awaited provider call returns and speech_to_text returns `text`.
\* process_audio_frame lines 400-416 and 465-472.
AsrReturn(c, t, text) ==
    /\ proc[c].pc[t] = "asr"
    /\ IF text # "" /\ conn[c].websocket
       THEN /\ proc' = [proc EXCEPT ![c].pc[t] = "intent"]
            /\ UNCHANGED conn
       ELSE /\ proc' = [proc EXCEPT ![c].pc[t] = "idle"]
            /\ conn' = [conn EXCEPT ![c] = FinishDispatch(@)]
    /\ hist' = [hist EXCEPT ![c].asr = IF text = "" THEN "empty" ELSE "none"]
    /\ UNCHANGED <<serviceVars, signalVars, textVars, pacerVars, clients, counter, stop_requested, stop_client, ws, track,
                   used>>

\* handle_user_intent returns. process_audio_frame lines 416-419.
IntentReturn(c, t, intent_handled) ==
    /\ proc[c].pc[t] = "intent"
    /\ IF intent_handled
       THEN /\ proc' = [proc EXCEPT ![c].pc[t] = "idle"]
            /\ conn' = [conn EXCEPT ![c] = FinishDispatch(@)]
       ELSE /\ proc' = [proc EXCEPT ![c].pc[t] = "stt"]
            /\ UNCHANGED conn
    /\ UNCHANGED <<serviceVars, signalVars, textVars, pacerVars, clients, counter, stop_requested, stop_client, ws, track,
                   used, hist>>

\* send_stt_message has sent stt, llm and tts start; then lines 420-424:
\* conn.executor.submit(conn.chat, text) queues a call of chat for a worker
\* thread, and "vad = builtins_conn.vad" raises NameError, caught at line
\* 462; lines 468-471 follow.
SttSent(c, t) ==
    /\ proc[c].pc[t] = "stt"
    /\ proc' = [proc EXCEPT ![c].pc[t] = "idle"]
    /\ conn' = [conn EXCEPT ![c] = FinishDispatch(@)]
    /\ hist' = [hist EXCEPT ![c].out = @ \o <<"stt", "llm", "tts_start">>,
                            ![c].chat = "submitted"]
    /\ UNCHANGED <<serviceVars, signalVars, textVars, pacerVars, clients, counter, stop_requested, stop_client, ws, track,
                   used>>

\* handle_user_intent (line 416) or send_stt_message (line 419) raises:
\* the exception is caught at line 462 and lines 468-471 follow.
HandlingRaises(c, t) ==
    /\ proc[c].pc[t] \in {"intent", "stt"}
    /\ proc' = [proc EXCEPT ![c].pc[t] = "idle"]
    /\ conn' = [conn EXCEPT ![c] = FinishDispatch(@)]
    /\ UNCHANGED <<serviceVars, signalVars, textVars, pacerVars, clients, counter, stop_requested, stop_client, ws, track,
                   used, hist>>

\* The worker thread of conn.executor runs the submitted call chat(text).
\* chat is declared "async def" (webrtc_connection.py line 136), so the call
\* returns a coroutine object, which becomes the result of a future that
\* nothing reads: no line of chat's body runs and no field changes.
ExecutorCall(c) ==
    /\ hist[c].chat = "submitted"
    /\ hist' = [hist EXCEPT ![c].chat = "called"]
    /\ UNCHANGED <<serviceVars, signalVars, textVars, pacerVars, clients, conn, counter, stop_requested, stop_client, proc,
                   ws, track, used>>

\* ------------------------------------------- handleTextMessage, type listen
\* mode is the mode field of a start message (None when absent); the stop
\* messages modelled carry no mode field. lookup says whether the search
\* for the WebRTC connection manager (lines 45-92) found one.
ListenModes == {"auto", "manual"}

HandleListenStart(d, mode) ==
    /\ ws' = [ws EXCEPT ![d].client_listen_mode = IF mode = None THEN @ ELSE mode,
                        ![d].client_have_voice = TRUE,
                        ![d].client_voice_stop = FALSE]
    /\ UNCHANGED <<serviceVars, signalVars, textVars, pacerVars, clients, conn, counter, stop_requested, stop_client, proc,
                   track, used, hist>>

HandleListenStop(d, lookup) ==
    /\ used.stops < MaxStops
    /\ ws' = [ws EXCEPT ![d].client_have_voice = TRUE,
                        ![d].client_voice_stop = TRUE]
    /\ conn' = IF lookup /\ d \in clients
               THEN [conn EXCEPT ![d].client_voice_stop = TRUE,
                                 ![d].client_voice_stop_requested = TRUE]
               ELSE conn
    /\ stop_requested' = TRUE
    /\ stop_client' = d
    /\ used' = [used EXCEPT !.stops = @ + 1]
    /\ UNCHANGED <<serviceVars, signalVars, textVars, pacerVars, clients, counter, proc, track, hist>>

\* ConnectionManager.create_peer_connection.on_message, command stop /
\* stop_recording (lines 198-233).
DataChannelStop(c) ==
    /\ used.stops < MaxStops
    /\ c \in clients
    /\ conn' = [conn EXCEPT ![c].client_voice_stop = TRUE,
                            ![c].client_voice_stop_requested = TRUE]
    /\ used' = [used EXCEPT !.stops = @ + 1]
    /\ UNCHANGED <<serviceVars, signalVars, textVars, pacerVars, clients, counter, stop_requested, stop_client, proc, ws,
                   track, hist>>

NextAudio ==
    \E c \in Devices :
        \/ RxFrame(c)
        \/ RecvQueued(c)
        \/ RecvFrame(c)
        \/ \E t \in Tasks, result \in ProviderResults :
               AsrReturn(c, t, speech_to_text(result))
        \/ \E t \in Tasks, h \in BOOLEAN : IntentReturn(c, t, h)
        \/ \E t \in Tasks : SttSent(c, t)
        \/ \E t \in Tasks : HandlingRaises(c, t)
        \/ ExecutorCall(c)
        \/ \E mode \in ListenModes \cup {None} : HandleListenStart(c, mode)
        \/ \E lookup \in BOOLEAN : HandleListenStop(c, lookup)
        \/ DataChannelStop(c)

SpecAudio == InitAudio /\ [][NextAudio]_vars

\* =================================================== outbound play-out path
AudioIdle ==
    /\ clients = Devices
    /\ conn = [c \in Devices |-> NewWebRTCConnection(FALSE)]
    /\ counter = [c \in Devices |-> 0]
    /\ stop_requested = FALSE
    /\ stop_client = None
    /\ proc = [c \in Devices |-> NewProcessor]
    /\ ws = [d \in Devices |-> NewConnectionHandler]
    /\ track = [c \in Devices |-> "opus"]
    /\ used = [frames |-> 0, stops |-> 0, recv |-> 0]
    /\ hist = [c \in Devices |-> NewHist]

InitPacer ==
    /\ AudioIdle
    /\ TextIdle
    /\ SignalIdle
    /\ ServiceIdle
    /\ \E notify \in BOOLEAN, close_after_chat \in BOOLEAN :
           sess = NewSession(notify, close_after_chat)
    /\ audio_play_queue = <<>>
    /\ pacer = NewPacer
    /\ reply = NewReply
    /\ sent = <<>>

\* ------------------------------------------------ what goes on the transport
TtsMessageSwapped(state, seg) ==
    [kind |-> IF state = "sentence_start" THEN "sentence_end" ELSE state,
     text |-> seg.text, seg |-> seg.index, k |-> 0,
     notify |-> FALSE, late |-> sess.client_abort]

AudioFrameReversed(audio, k) ==
    [kind |-> "frame", text |-> None, seg |-> audio.index,
     k |-> audio.n + 1 - k,
     notify |-> (audio = NotifySound), late |-> sess.client_abort]

\* A tts control message of send_tts_message (lines 83-85, 101). seg and k
\* identify what was sent; late records client_abort when the send began.
TtsMessage(state, seg) ==
    [kind |-> state, text |-> seg.text, seg |-> seg.index, k |-> 0,
     notify |-> FALSE, late |-> sess.client_abort]

\* One audio frame sent by sendAudio (lines 46 and 67): frame k of audio.
AudioFrame(audio, k) ==
    [kind |-> "frame", text |-> None, seg |-> audio.index, k |-> k,
     notify |-> (audio = NotifySound), late |-> sess.client_abort]

\* A variant of line 44 that pre-sends no frame.
pre_buffer_none(n) == 0

\* sendAudio line 44.
pre_buffer(n) == Min(PreBufferFrames, n)

\* A variant of the test at line 27 that ignores close_after_chat.
CloseDueAlways(s) == TRUE

\* sendAudioMessage line 27.
CloseDue(s) == s.close_after_chat

\* sendAudioMessage line 25.
StopDue(s, seg) == s.llm_finish_task /\ seg.index = s.tts_last_text_index

\* ConnectionHandler.clearSpeakStatus: on the stop transition both indices
\* are reset to 0.
clearSpeakStatus(s) ==
    [s EXCEPT !.tts_first_text_index = 0, !.tts_last_text_index = 0]

\* WebRTCConnection.record_text_index.
record_text_index(s, text_index) ==
    [s EXCEPT !.tts_first_text_index =
                  IF @ = 0 /\ text_index > 0 THEN text_index ELSE @,
              !.tts_last_text_index = text_index]

\* Where the coroutine suspends next once sendAudio has returned: in
\* sendAudioMessage at the send of sentence_end (line 22), in
\* send_tts_message "stop" at the send of the stop message (line 101).
AfterAudio(p) ==
    IF p.audio = NotifySound
    THEN [p EXCEPT !.pc = "stop", !.audio = NoSegment, !.i = 0]
    ELSE [p EXCEPT !.pc = "end", !.audio = NoSegment, !.i = 0]

\* sendAudio after frame number i of pacer.audio has been sent.
AfterFrame(p, i) ==
    IF i < pre_buffer(p.audio.n) THEN [p EXCEPT !.pc = "pre", !.i = i]
    ELSE IF i < p.audio.n THEN [p EXCEPT !.pc = "loop", !.i = i]
    ELSE AfterAudio(p)

\* The session after sendAudio has returned: the notification sound is
\* followed by clearSpeakStatus (send_tts_message line 98).
SessAfterFrame(s, p, i) ==
    IF i >= p.audio.n /\ p.audio = NotifySound THEN clearSpeakStatus(s) ELSE s

\* ----------------------------------------------------------- reply pipeline
\* The TTS streamer hands the next segment to the pacer: the index is
\* allocated and recorded as in WebRTCConnection.chat lines 163-164.
Produce(text, n) ==
    LET text_index == sess.tts_last_text_index + 1
        seg == [index |-> text_index, text |-> text, n |-> n]
    IN
    /\ ~sess.llm_finish_task
    /\ ~sess.closed
    /\ Len(reply.produced) < MaxSegments
    /\ sess' = record_text_index(sess, text_index)
    /\ audio_play_queue' = Append(audio_play_queue, seg)
    /\ reply' = [reply EXCEPT !.produced = Append(@, seg)]
    /\ UNCHANGED <<serviceVars, signalVars, textVars, audioVars, pacer, sent>>

\* WebRTCConnection.chat line 168: the LLM has signalled completion.
LlmFinish ==
    /\ ~sess.llm_finish_task
    /\ reply.produced # <<>>
    /\ sess' = [sess EXCEPT !.llm_finish_task = TRUE]
    /\ UNCHANGED <<serviceVars, signalVars, textVars, audioVars, audio_play_queue, pacer, reply, sent>>

\* handleTextMessage, type abort: the barge-in request sets client_abort.
HandleAbort ==
    /\ ~sess.client_abort
    /\ sess' = [sess EXCEPT !.client_abort = TRUE]
    /\ UNCHANGED <<serviceVars, signalVars, textVars, audioVars, audio_play_queue, pacer, reply, sent>>

\* -------------------------------------------------------------------- pacer
\* The pacer task takes the next queued segment and calls sendAudioMessage,
\* which runs up to its first send; after a barge-in the queued segments
\* are drained instead.
PacerTake ==
    /\ pacer.pc = "idle"
    /\ audio_play_queue # <<>>
    /\ ~sess.closed
    /\ audio_play_queue' = Tail(audio_play_queue)
    /\ pacer' = IF sess.client_abort THEN pacer
                ELSE [pacer EXCEPT !.pc = "start",
                                   !.seg = Head(audio_play_queue)]
    /\ UNCHANGED <<serviceVars, signalVars, textVars, audioVars, sess, reply, sent>>

\* sendAudioMessage line 17, then sendAudio up to its first send.
SendStart ==
    /\ pacer.pc = "start"
    /\ sent' = Append(sent, TtsMessage("sentence_start", pacer.seg))
    /\ pacer' = AfterFrame([pacer EXCEPT !.audio = pacer.seg], 0)
    /\ UNCHANGED <<serviceVars, signalVars, textVars, audioVars, sess, audio_play_queue, reply>>

\* sendAudio lines 45-47: a pre-buffered frame, sent without looking at
\* client_abort.
SendPre ==
    /\ pacer.pc = "pre"
    /\ sent' = Append(sent, AudioFrame(pacer.audio, pacer.i + 1))
    /\ pacer' = AfterFrame(pacer, pacer.i + 1)
    /\ sess' = SessAfterFrame(sess, pacer, pacer.i + 1)
    /\ UNCHANGED <<serviceVars, signalVars, textVars, audioVars, audio_play_queue, reply>>

\* sendAudio lines 50-68, one turn of the loop over the remaining frames up
\* to its next await: return when client_abort is set, else sleep when the
\* frame is not yet due (delayed), else send it.
LoopStep(delayed) ==
    /\ pacer.pc = "loop"
    /\ IF sess.client_abort
       THEN /\ pacer' = AfterAudio([pacer EXCEPT !.interrupted =
                                        @ \/ pacer.audio # NotifySound])
            /\ sess' = SessAfterFrame(sess, pacer, pacer.audio.n)
            /\ UNCHANGED sent
       ELSE IF delayed
       THEN /\ pacer' = [pacer EXCEPT !.pc = "sleep"]
            /\ UNCHANGED <<sess, sent>>
       ELSE /\ sent' = Append(sent, AudioFrame(pacer.audio, pacer.i + 1))
            /\ pacer' = AfterFrame(pacer, pacer.i + 1)
            /\ sess' = SessAfterFrame(sess, pacer, pacer.i + 1)
    /\ UNCHANGED <<serviceVars, signalVars, textVars, audioVars, audio_play_queue, reply>>

\* sendAudio lines 65-68: the sleep is over, the frame is sent.
Wake ==
    /\ pacer.pc = "sleep"
    /\ sent' = Append(sent, AudioFrame(pacer.audio, pacer.i + 1))
    /\ pacer' = AfterFrame(pacer, pacer.i + 1)
    /\ sess' = SessAfterFrame(sess, pacer, pacer.i + 1)
    /\ UNCHANGED <<serviceVars, signalVars, textVars, audioVars, audio_play_queue, reply>>

\* sendAudioMessage lines 22-26: sentence_end, then the test for the final
\* segment; send_tts_message "stop" runs up to its first await, which is
\* the first frame of the notification sound or the stop message itself.
SendEnd ==
    /\ pacer.pc = "end"
    /\ sent' = Append(sent, TtsMessage("sentence_end", pacer.seg))
    /\ IF StopDue(sess, pacer.seg)
       THEN IF sess.notify
            THEN /\ pacer' = AfterFrame([pacer EXCEPT !.audio = NotifySound], 0)
                 /\ UNCHANGED sess
            ELSE /\ pacer' = [pacer EXCEPT !.pc = "stop"]
                 /\ sess' = clearSpeakStatus(sess)
       ELSE /\ pacer' = [pacer EXCEPT !.pc = "idle", !.done = pacer.seg.index,
                                      !.seg = NoSegment]
            /\ UNCHANGED sess
    /\ UNCHANGED <<serviceVars, signalVars, textVars, audioVars, audio_play_queue, reply>>

\* send_tts_message line 101 for "stop", then sendAudioMessage lines 27-28.
SendStop ==
    /\ pacer.pc = "stop"
    /\ sent' = Append(sent, TtsMessage("stop", NoSegment))
    /\ pacer' = IF CloseDue(sess)
                THEN [pacer EXCEPT !.pc = "close"]
                ELSE [pacer EXCEPT !.pc = "idle", !.done = pacer.seg.index,
                                   !.seg = NoSegment]
    /\ UNCHANGED <<serviceVars, signalVars, textVars, audioVars, sess, audio_play_queue, reply>>

\* conn.close() at sendAudioMessage line 28.
Close ==
    /\ pacer.pc = "close"
    /\ sess' = [sess EXCEPT !.closed = TRUE]
    /\ pacer' = [pacer EXCEPT !.pc = "idle", !.done = pacer.seg.index,
                              !.seg = NoSegment]
    /\ UNCHANGED <<serviceVars, signalVars, textVars, audioVars, audio_play_queue, reply, sent>>

NextPacer ==
    \/ \E text \in Texts, n \in {1, LongSegment} : Produce(text, n)
    \/ LlmFinish
    \/ HandleAbort
    \/ PacerTake
    \/ SendStart
    \/ SendPre
    \/ \E delayed \in BOOLEAN : LoopStep(delayed)
    \/ Wake
    \/ SendEnd
    \/ SendStop
    \/ Close

SpecPacer == InitPacer /\ [][NextPacer]_vars

\* ======================================================== text messages
PacerIdle ==
    /\ sess = NewSession(FALSE, FALSE)
    /\ audio_play_queue = <<>>
    /\ pacer = NewPacer
    /\ reply = NewReply
    /\ sent = <<>>

InitText ==
    /\ AudioIdle
    /\ PacerIdle
    /\ SignalIdle
    /\ ServiceIdle
    /\ \E words \in SUBSET WakeupWords, greeting \in BOOLEAN, notify \in BOOLEAN :
           config = NewConfig(words, greeting, notify)
    /\ wsout = <<>>

\* The texts a client sends with listen detect.
RECURSIVE TextsUpTo(_)
TextsUpTo(n) ==
    IF n = 0 THEN {<<>>}
    ELSE TextsUpTo(n - 1) \cup
         {Append(t, ch) : t \in {u \in TextsUpTo(n - 1) : Len(u) = n - 1},
                          ch \in Chars}

RawTexts == TextsUpTo(MaxTextLen)

\* core.utils.util.remove_punctuation_and_length: the text without its
\* punctuation marks (the length it also returns is dropped at line 117).
RECURSIVE remove_punctuation_and_length(_)
remove_punctuation_and_length(text) ==
    IF text = <<>> THEN <<>>
    ELSE IF Head(text) = "!"
         THEN remove_punctuation_and_length(Tail(text))
         ELSE <<Head(text)>> \o remove_punctuation_and_length(Tail(text))

\* core.utils.util.get_string_no_punctuation_or_emoji: the text without
\* the punctuation marks at its two ends.
RECURSIVE get_string_no_punctuation_or_emoji(_)
get_string_no_punctuation_or_emoji(text) ==
    IF text = <<>> THEN <<>>
    ELSE IF Head(text) = "!"
         THEN get_string_no_punctuation_or_emoji(Tail(text))
         ELSE IF text[Len(text)] = "!"
              THEN get_string_no_punctuation_or_emoji(SubSeq(text, 1, Len(text) - 1))
              ELSE text

\* A variant of the test at line 120 that looks at the length only.
is_wakeup_words_by_length(text, words) ==
    \E w \in WakeupWords : Len(w) = Len(text)

\* textHandle.py line 120.
is_wakeup_words(text, words) == text \in words

\* send_stt_message (sendAudioHandle.py lines 104-120): stt, llm, tts start.
send_stt_message(text) ==
    <<[kind |-> "stt", text |-> get_string_no_punctuation_or_emoji(text)],
      [kind |-> "llm", text |-> None],
      [kind |-> "tts_start", text |-> None]>>

\* send_tts_message(conn, "stop") (lines 81-101): the notification sound if
\* configured, then the stop message.
send_tts_stop ==
    [i \in 1..(IF config.enable_stop_tts_notify THEN NotifyFrames ELSE 0) |->
        [kind |-> "frame", text |-> None]]
    \o <<[kind |-> "tts_stop", text |-> None]>>

DetectCount ==
    Cardinality({i \in 1..Len(wsout) : wsout[i].kind \in {"stt", "chat"}})

\* handleTextMessage, type listen, state detect (lines 111-130).
\* startToChat is entered as a "chat" record with the text it is given.
HandleListenDetect(d, has_text, raw) ==
    LET text == remove_punctuation_and_length(raw) IN
    /\ DetectCount < MaxDetects
    /\ ws' = [ws EXCEPT ![d].asr_server_receive = FALSE,
                        ![d].client_have_voice = FALSE,
                        ![d].asr_audio = <<>>]
    /\ wsout' = IF ~has_text THEN wsout
                ELSE IF is_wakeup_words(text, config.wakeup_words)
                        /\ ~config.enable_greeting
                     THEN wsout \o send_stt_message(text) \o send_tts_stop
                     ELSE Append(wsout, [kind |-> "chat", text |-> text])
    /\ UNCHANGED <<serviceVars, signalVars, pacerVars, clients, conn, counter, stop_requested,
                   stop_client, proc, track, used, hist, config>>

NextText ==
    \E d \in Devices :
        \/ \E mode \in ListenModes \cup {None} : HandleListenStart(d, mode)
        \/ \E lookup \in BOOLEAN : HandleListenStop(d, lookup)
        \/ \E has_text \in BOOLEAN, raw \in RawTexts : HandleListenDetect(d, has_text, raw)

SpecText == InitText /\ [][NextText]_vars

\* ============================================================ signalling
InitSignal ==
    /\ AudioIdle
    /\ PacerIdle
    /\ TextIdle
    /\ SignalIdle
    /\ ServiceIdle

\* An offer message as the client sends it: flat {type, sdp, ...} or wrapped
\* {type, payload: {sdp, ...}}; it may name a client id and its SDP may
\* carry a=session-id.
Offers ==
    [shape : {"flat", "wrapped"}, client_id : {None, "dev"},
     session : {None} \cup SessionIds]

\* handle_text_message line 140: payload = message.get('payload', message).
\* The flat message itself has the key type; the payload of a wrapped one
\* has the keys of the payload only.
payload(msg) ==
    [type |-> IF msg.shape = "flat" THEN "offer" ELSE None,
     sdp |-> [session_id |-> msg.session],
     client_id |-> msg.client_id]

\* ConnectionManager.extract_session_id_from_sdp.
extract_session_id_from_sdp(sdp) == sdp.session_id

\* RTCPeerConnection.createAnswer / setLocalDescription: the answer is the
\* peer connection's own description; handle_offer adds nothing to it.
createAnswer(offer_sdp) == [session_id |-> None]

\* ConnectionManager.is_websocket_open.
is_websocket_open(w) == w \in Sockets /\ sock[w].state = "open"

\* ConnectionManager.associate_websocket (the definition at line 911).
associate_websocket(wc, id, s) ==
    IF wc[id] = None \/ ~is_websocket_open(wc[id])
    THEN [wc EXCEPT ![id] = s]
    ELSE wc

NewPc(id, s, session) ==
    [client |-> id, sock |-> s, closed |-> FALSE, remote |-> FALSE,
     added |-> {}, session |-> session]

TotalOffers == sock["s1"].noffers + sock["s2"].noffers

\* The candidates received that are meant for the peer connection of the
\* offer now arriving: those received since the socket's previous answer.
ForNextPc(s) == IF sock[s].mypc # NoPc THEN {} ELSE sock[s].got

\* handle_websocket lines 41-84: the connection is accepted.
Connect(s) ==
    /\ sock[s].state = "new"
    /\ sock' = [sock EXCEPT ![s].state = "open"]
    /\ webrtc_connections' = associate_websocket(webrtc_connections, SignalId(s), s)
    /\ sigsent' = [sigsent EXCEPT ![s] =
           Append(@, [type |-> "connected", client_id |-> SignalId(s),
                      sdp |-> [session_id |-> None], offer_session |-> None])]
    /\ UNCHANGED <<serviceVars, audioVars, pacerVars, textVars, peer_connections, data_channels,
                   audio_processors, pending_candidates, client_id_map,
                   session_map, pcs>>

\* handle_offer from its entry to its first suspension: an invalid offer
\* returns at line 516; a valid one reaches create_peer_connection, which
\* registers the new peer connection at once (lines 85-86) or, if the
\* client id has one, suspends in close_connection at "await pc.close()".
OfferStart(s, msg) ==
    LET o == payload(msg)
        S == SignalId(s)
        cid == IF o.client_id # None /\ o.client_id # S THEN o.client_id ELSE S
        session == extract_session_id_from_sdp(o.sdp)
        wc == IF session # None
              THEN associate_websocket(webrtc_connections, cid, s)
              ELSE webrtc_connections
        new == Len(pcs) + 1
    IN
    /\ sock[s].state = "open"
    /\ sock[s].pc = "idle"
    /\ TotalOffers < MaxOffers
    /\ client_id_map' = IF cid # S THEN [client_id_map EXCEPT ![S] = cid]
                        ELSE client_id_map
    /\ session_map' = IF session # None THEN [session_map EXCEPT ![session] = cid]
                      ELSE session_map
    /\ webrtc_connections' = wc
    /\ IF o.type = None
       THEN /\ sock' = [sock EXCEPT ![s].noffers = @ + 1]
            /\ UNCHANGED <<peer_connections, pcs>>
       ELSE IF peer_connections[cid] # NoPc
            THEN /\ sock' = [sock EXCEPT ![s].noffers = @ + 1,
                                ![s].got = ForNextPc(s),
                                ![s].pc = "closing",
                                ![s].cur = [cid |-> cid, old |-> peer_connections[cid],
                                            new |-> NoPc, session |-> session]]
                 /\ UNCHANGED <<peer_connections, pcs>>
            ELSE /\ sock' = [sock EXCEPT ![s].noffers = @ + 1,
                                ![s].got = ForNextPc(s),
                                ![s].pc = "negotiate",
                                ![s].cur = [cid |-> cid, old |-> NoPc,
                                            new |-> new, session |-> session]]
                 /\ pcs' = Append(pcs, NewPc(cid, s, session))
                 /\ peer_connections' = [peer_connections EXCEPT ![cid] = new]
    /\ UNCHANGED <<serviceVars, audioVars, pacerVars, textVars, data_channels, audio_processors,
                   pending_candidates, sigsent>>

\* close_connection after "await pc.close()" (lines 1124-1134) and the rest
\* of create_peer_connection (lines 85-86): whatever is registered under
\* the client id is removed and the new peer connection is registered.
OfferClosed(s) ==
    LET cur == sock[s].cur
        new == Len(pcs) + 1
    IN
    /\ sock[s].pc = "closing"
    /\ pcs' = Append([pcs EXCEPT ![cur.old].closed = TRUE],
                     NewPc(cur.cid, s, cur.session))
    /\ peer_connections' = [peer_connections EXCEPT ![cur.cid] = new]
    /\ audio_processors' = [audio_processors EXCEPT ![cur.cid] = NoPc]
    /\ webrtc_connections' = [webrtc_connections EXCEPT ![cur.cid] = None]
    /\ data_channels' = [data_channels EXCEPT ![cur.cid] = NoPc]
    /\ sock' = [sock EXCEPT ![s].pc = "negotiate", ![s].cur.new = new]
    /\ UNCHANGED <<serviceVars, audioVars, pacerVars, textVars, pending_candidates, client_id_map,
                   session_map, sigsent>>

\* handle_offer lines 525-565 and 678-683: remote description, answer, the
\* messages connected and answer on the socket, then the candidates waiting
\* under the client id. On a peer connection that has been closed meanwhile
\* setRemoteDescription raises and the handler ends in the except clause at line 685.
OfferAnswer(s) ==
    LET cur == sock[s].cur
        p == cur.new
        reg == peer_connections[cur.cid]
        pend == pending_candidates[cur.cid]
        waiting == {pend[i] : i \in 1..Len(pend)}
        answered == [pcs EXCEPT ![p].remote = TRUE]
    IN
    /\ sock[s].pc = "negotiate"
    /\ IF pcs[p].closed
       THEN /\ sock' = [sock EXCEPT ![s].pc = "idle", ![s].cur = NoCall]
            /\ UNCHANGED <<pcs, pending_candidates, sigsent>>
       ELSE /\ sigsent' = [sigsent EXCEPT ![s] = @ \o
                   <<[type |-> "connected", client_id |-> cur.cid,
                      sdp |-> [session_id |-> None], offer_session |-> None],
                     [type |-> "answer", client_id |-> cur.cid,
                      sdp |-> createAnswer([session_id |-> cur.session]),
                      offer_session |-> cur.session]>>]
            /\ pcs' = IF reg # NoPc /\ ~answered[reg].closed
                      THEN [answered EXCEPT ![reg].added = @ \cup waiting]
                      ELSE answered
            /\ pending_candidates' = [pending_candidates EXCEPT ![cur.cid] = <<>>]
            /\ sock' = [sock EXCEPT ![s].pc = "idle", ![s].cur = NoCall,
                                    ![s].mypc = p]
    /\ UNCHANGED <<serviceVars, audioVars, pacerVars, textVars, peer_connections,
                   webrtc_connections, data_channels, audio_processors,
                   client_id_map, session_map>>

\* handle_text_message line 146 and handle_ice_candidate: the candidate is
\* looked up under the signalling client id.
IceCandidate(s) ==
    LET S == SignalId(s)
        c == sock[s].ncand + 1
        reg == peer_connections[S]
    IN
    /\ sock[s].state = "open"
    /\ sock[s].pc = "idle"
    /\ sock[s].ncand < MaxCandidates
    /\ sock' = [sock EXCEPT ![s].ncand = c, ![s].got = @ \cup {c}]
    /\ IF reg = NoPc
       THEN /\ pending_candidates' = [pending_candidates EXCEPT ![S] = Append(@, c)]
            /\ UNCHANGED pcs
       ELSE /\ pcs' = [pcs EXCEPT ![reg].added = @ \cup {c}]
            /\ UNCHANGED pending_candidates
    /\ UNCHANGED <<serviceVars, audioVars, pacerVars, textVars, peer_connections,
                   webrtc_connections, data_channels, audio_processors,
                   client_id_map, session_map, sigsent>>

\* ConnectionManager.close_connection, run to its end.
close_connection(id) ==
    /\ pcs' = IF peer_connections[id] # NoPc
              THEN [pcs EXCEPT ![peer_connections[id]].closed = TRUE]
              ELSE pcs
    /\ peer_connections' = [peer_connections EXCEPT ![id] = NoPc]
    /\ audio_processors' = [audio_processors EXCEPT ![id] = NoPc]
    /\ webrtc_connections' = [webrtc_connections EXCEPT ![id] = None]
    /\ data_channels' = [data_channels EXCEPT ![id] = NoPc]

\* handle_websocket lines 97-119: the transport has closed, the message
\* loop ends and the finally block runs.
Disconnect(s) ==
    /\ sock[s].state = "open"
    /\ sock[s].pc = "idle"
    /\ close_connection(SignalId(s))
    /\ sock' = [sock EXCEPT ![s].state = "done"]
    /\ UNCHANGED <<serviceVars, audioVars, pacerVars, textVars, pending_candidates, client_id_map,
                   session_map, sigsent>>

Live(p) == p \in 1..Len(pcs) /\ ~pcs[p].closed /\ pcs[p].remote

\* create_peer_connection.on_track (lines 254-312).
OnTrack(p) ==
    /\ Live(p)
    /\ audio_processors[pcs[p].client] # p
    /\ audio_processors' = [audio_processors EXCEPT ![pcs[p].client] = p]
    /\ UNCHANGED <<serviceVars, audioVars, pacerVars, textVars, peer_connections,
                   webrtc_connections, data_channels, pending_candidates,
                   client_id_map, session_map, pcs, sock, sigsent>>

\* create_peer_connection.on_datachannel (lines 119-123).
OnDataChannel(p) ==
    /\ Live(p)
    /\ data_channels[pcs[p].client] # p
    /\ data_channels' = [data_channels EXCEPT ![pcs[p].client] = p]
    /\ UNCHANGED <<serviceVars, audioVars, pacerVars, textVars, peer_connections,
                   webrtc_connections, audio_processors, pending_candidates,
                   client_id_map, session_map, pcs, sock, sigsent>>

\* The frame callback of an audio track: process_audio_frame creates the
\* WebRTCConnection of its client id when there is none
\* (audio_frame_handler.py lines 247-257); it holds no websocket yet.
OnFrame(id) ==
    /\ Live(audio_processors[id])
    /\ webrtc_connections[id] = None
    /\ webrtc_connections' = [webrtc_connections EXCEPT ![id] = "nows"]
    /\ UNCHANGED <<serviceVars, audioVars, pacerVars, textVars, peer_connections, data_channels,
                   audio_processors, pending_candidates, client_id_map,
                   session_map, pcs, sock, sigsent>>

NextSignal ==
    \/ \E s \in Sockets :
           \/ Connect(s)
           \/ \E msg \in Offers : OfferStart(s, msg)
           \/ OfferClosed(s)
           \/ OfferAnswer(s)
           \/ IceCandidate(s)
           \/ Disconnect(s)
    \/ \E p \in 1..Len(pcs) : OnTrack(p)
    \/ \E p \in 1..Len(pcs) : OnDataChannel(p)
    \/ \E id \in ClientIds : OnFrame(id)

SpecSignal == InitSignal /\ [][NextSignal]_vars

\* Every part of the media pipeline as it is before its first message.
MediaIdle == AudioIdle /\ PacerIdle /\ TextIdle /\ SignalIdle

\* ==================================== listen stop with two clients connected
\* Two devices, each with its ConnectionHandler (WebSocket) and its
\* WebRTCConnection; both stream Opus frames. The device-id header that
\* handleTextMessage reads at line 42 is the device's own id.
StopDevices == {"devA", "devB"}

InitStop ==
    /\ clients = StopDevices
    /\ conn = [c \in StopDevices |-> NewWebRTCConnection(FALSE)]
    /\ counter = [c \in StopDevices |-> 0]
    /\ stop_requested = FALSE
    /\ stop_client = None
    /\ proc = [c \in StopDevices |-> NewProcessor]
    /\ ws = [d \in StopDevices |-> NewConnectionHandler]
    /\ track = [c \in StopDevices |-> "opus"]
    /\ used = [frames |-> 0, stops |-> 0, recv |-> 0]
    /\ hist = [c \in StopDevices |-> NewHist]
    /\ sess = NewSession(FALSE, FALSE)
    /\ audio_play_queue = <<>>
    /\ pacer = NewPacer
    /\ reply = NewReply
    /\ sent = <<>>
    /\ TextIdle
    /\ SignalIdle
    /\ ServiceIdle

NextStop ==
    \E c \in StopDevices :
        \/ RxFrame(c)
        \/ AsrReturn(c, "rx", "")
        \/ \E lookup \in BOOLEAN : HandleListenStop(c, lookup)

SpecStop == InitStop /\ [][NextStop]_vars

\* ================================================= the shared TTS provider
InitTts ==
    /\ MediaIdle
    /\ BesideTtsIdle
    /\ TtsIdle

\* What text_to_speak can do with one call (doubao.py 67-151, and the
\* contract to_tts tests at base.py 40-51):
\*   opus   writes the file and returns (opus_datas, duration)
\*   file   writes the file, returns no tuple
\*   none   no file, no tuple, no exception
\*   raise  raises
Outcomes == {"opus", "file", "none", "raise"}

\* speak_and_play (webrtc_connection.py 99-115) enters to_tts (base.py
\* 23-33) for the session's next segment.
ToTtsEnter(s) ==
    /\ job[s].pc = "idle"
    /\ job[s].k < MaxTtsSegments
    /\ job' = [job EXCEPT ![s].pc = "loop", ![s].k = @ + 1,
                          ![s].max_repeat_time = MaxRepeatTime,
                          ![s].opus_data_result = NoAudio,
                          ![s].tmp_file = TmpFile(s, job[s].k + 1),
                          ![s].ret = NoFile, ![s].calls = 0,
                          ![s].raised = FALSE]
    /\ UNCHANGED <<mediaVars, besideTts, tts, files>>

\* One pass of the loop of to_tts (base.py 34-51); an exception of
\* text_to_speak leaves the loop for the handler at lines 65-67.
TextToSpeak(s, outcome) ==
    LET j == job[s]
        audio == AudioOf(TtsText(s, j.k))
        called == [j EXCEPT !.calls = @ + 1]
    IN  /\ j.pc = "loop"
        /\ files' = IF outcome \in {"opus", "file"}
                    THEN [f \in DOMAIN files \cup {j.tmp_file} |->
                             IF f = j.tmp_file THEN audio ELSE files[f]]
                    ELSE files
        /\ job' = [job EXCEPT ![s] =
             CASE outcome = "opus" ->
                    [called EXCEPT !.opus_data_result = audio, !.pc = "after"]
               [] outcome = "file" -> [called EXCEPT !.pc = "after"]
               [] outcome = "none" ->
                    [called EXCEPT !.max_repeat_time = @ - 1,
                                   !.pc = IF j.max_repeat_time - 1 > 0
                                          THEN "loop" ELSE "after"]
               [] OTHER ->
                    [called EXCEPT !.raised = TRUE, !.ret = NoFile,
                                   !.pc = "ret"]]
        /\ UNCHANGED <<mediaVars, besideTts, tts>>

\* to_tts behind its loop (base.py 53-63): the frames are left on the
\* provider object and the file name is returned.
ToTtsReturn(s) ==
    LET j == job[s] IN
    /\ j.pc = "after"
    /\ IF j.opus_data_result # NoAudio
       THEN /\ tts' = [tts EXCEPT !._direct_opus_data = j.opus_data_result]
            /\ job' = [job EXCEPT ![s].ret = j.tmp_file, ![s].pc = "ret"]
       ELSE /\ tts' = tts
            /\ job' = [job EXCEPT ![s].pc = "ret",
                          ![s].ret = IF j.max_repeat_time > 0
                                     THEN j.tmp_file ELSE NoFile]
    /\ UNCHANGED <<mediaVars, besideTts, files>>

\* audio_to_opus_data (base.py 73-147): frames left on the provider object
\* are returned and removed, whatever file was asked for; otherwise the file
\* is read and encoded.
audio_to_opus_data(audio_file_path) ==
    IF tts._direct_opus_data # NoAudio
    THEN [opus_datas |-> tts._direct_opus_data,
          tts |-> [tts EXCEPT !._direct_opus_data = NoAudio]]
    ELSE [opus_datas |-> files[audio_file_path], tts |-> tts]

\* The session converts the file to_tts returned for its segment.
SegmentToOpus(s) ==
    LET j == job[s]
        r == audio_to_opus_data(j.ret)
    IN  /\ j.pc = "ret"
        /\ j.ret # NoFile
        /\ tts' = r.tts
        /\ job' = [job EXCEPT ![s].pc = "idle",
                     ![s].got = @ \cup {[asked |-> files[j.ret],
                                         opus_datas |-> r.opus_datas]}]
        /\ UNCHANGED <<mediaVars, besideTts, files>>

\* to_tts returned None: speak_and_play reports the segment as failed
\* (webrtc_connection.py 116-118).
SegmentFailed(s) ==
    /\ job[s].pc = "ret"
    /\ job[s].ret = NoFile
    /\ job' = [job EXCEPT ![s].pc = "idle"]
    /\ UNCHANGED <<mediaVars, besideTts, tts, files>>

\* send_tts_message("stop") with enable_stop_tts_notify (sendAudioHandle.py
\* 88-96) converts the notification sound on the session's pacer coroutine.
NotifyToOpus(s) ==
    LET r == audio_to_opus_data(stop_tts_notify_voice) IN
    /\ job[s].pc = "idle"
    /\ ~job[s].notified
    /\ tts' = r.tts
    /\ job' = [job EXCEPT ![s].notified = TRUE,
                 ![s].got = @ \cup {[asked |-> files[stop_tts_notify_voice],
                                     opus_datas |-> r.opus_datas]}]
    /\ UNCHANGED <<mediaVars, besideTts, files>>

NextTts ==
    \E s \in TtsSessions :
        \/ ToTtsEnter(s)
        \/ \E outcome \in Outcomes : TextToSpeak(s, outcome)
        \/ ToTtsReturn(s)
        \/ SegmentToOpus(s)
        \/ SegmentFailed(s)
        \/ NotifyToOpus(s)

SpecTts == InitTts /\ [][NextTts]_vars

\* ============================================ text messages out of protocol
InitControl ==
    /\ MediaIdle
    /\ BesideCtlIdle
    /\ CtlIdle

\* What a handler did with one message:
\*   reply  : "error"  an error control message was sent
\*            "echo"   the message text was sent back as it came
\*            "pong"   the answer to ping
\*            "none"   nothing was sent
\*   raised : an exception left the handler
Outcome(answer, raised) == [reply |-> answer, raised |-> raised]

\* handleTextMessage (textHandle.py 15-137). msg_json["type"] at line 23
\* raises KeyError for an object without the field; the only except clause
\* is the one for json.JSONDecodeError at line 136.
handleTextMessage(msg) ==
    CASE msg.json = "invalid" -> Outcome("echo", FALSE)
      [] msg.json = "number" -> Outcome("echo", FALSE)
      [] msg.type = None -> Outcome("none", TRUE)
      [] OTHER -> Outcome("none", FALSE)

\* SignalingHandler.handle_text_message (signaling.py 121-164).
\* message.get at line 132 raises AttributeError for a bare number, which
\* the handler of line 162 turns into an error message.
handle_text_message(msg) ==
    CASE msg.json = "invalid" -> Outcome("error", FALSE)
      [] msg.json = "number" -> Outcome("error", FALSE)
      [] msg.type = "ping" -> Outcome("pong", FALSE)
      [] OTHER -> Outcome("error", FALSE)

\* The socket's read loop hands the next text message to its handler.
TextMessage(h, msg) ==
    /\ Len(ctl[h]) < MaxControl
    /\ ctl' = [ctl EXCEPT ![h] = Append(@,
                 [msg |-> msg,
                  did |-> IF h = "websocket" THEN handleTextMessage(msg)
                          ELSE handle_text_message(msg)])]
    /\ UNCHANGED <<mediaVars, besideCtl>>

NextControl ==
    \E h \in Handlers, msg \in ControlMessages : TextMessage(h, msg)

SpecControl == InitControl /\ [][NextControl]_vars

\* ===================================================== _retry_send_answer
InitRetry ==
    /\ MediaIdle
    /\ BesideRetryIdle
    /\ RetryIdle

\* What sending on an open websocket can do in one pass (lines 1186-1224):
\*   ok               both messages are sent
\*   connected_fails  send_websocket_message returns False for CONNECTED
\*   answer_fails     CONNECTED is sent, the answer is not
\*   closed           a send raises an error that says the socket is closed
SendResults == {"ok", "connected_fails", "answer_fails", "closed"}

Max(a, b) == IF a >= b THEN a ELSE b

\* One pass of the loop from line 1178 to the sleep at line 1230 or to the
\* return at line 1214.
RetryPass(result) ==
    LET r == answer_retry
        began == [r EXCEPT !.attempts = @ + 1, !.last_at = r.now,
                    !.gap = IF r.attempts = 0 THEN 0
                            ELSE Max(@, r.now - r.last_at)]
        paused == IF r.pending_connected_message
                  THEN [began EXCEPT !.now = @ + ConnectedPauseMs]
                  ELSE began
    IN  /\ r.pc = "try"
        /\ r.retries < MaxRetries
        /\ answer_retry' =
             IF r.websocket # "open"
             THEN [began EXCEPT !.pc = "sleep"]
             ELSE CASE result = "ok" ->
                         [paused EXCEPT !.pc = "sent",
                                        !.pending_connected_message = FALSE]
                    [] result = "connected_fails" ->
                         [began EXCEPT !.pc = "sleep"]
                    [] result = "answer_fails" ->
                         [paused EXCEPT !.pc = "sleep"]
                    [] OTHER ->
                         [began EXCEPT !.pc = "sleep", !.websocket = "none"]
        /\ UNCHANGED <<mediaVars, besideRetry>>

\* asyncio.sleep(retry_interval) ends; retries += 1 (lines 1230-1231), and
\* the loop test of line 1178.
RetrySleep ==
    LET r == answer_retry IN
    /\ r.pc = "sleep"
    /\ answer_retry' = [r EXCEPT !.now = @ + RetryIntervalMs,
                                 !.retries = @ + 1,
                                 !.pc = IF r.retries + 1 < MaxRetries
                                        THEN "try" ELSE "failed"]
    /\ UNCHANGED <<mediaVars, besideRetry>>

\* While the task sleeps the client's socket closes, or the client comes
\* back and associate_websocket stores its new socket (lines 911-967).
WebsocketChange(w) ==
    /\ answer_retry.pc = "sleep"
    /\ answer_retry.changes < MaxWsChanges
    /\ w # answer_retry.websocket
    /\ answer_retry' = [answer_retry EXCEPT !.websocket = w, !.changes = @ + 1]
    /\ UNCHANGED <<mediaVars, besideRetry>>

NextRetry ==
    \/ \E result \in SendResults : RetryPass(result)
    \/ RetrySleep
    \/ \E w \in {"open", "closed"} : WebsocketChange(w)

SpecRetry == InitRetry /\ [][NextRetry]_vars

\* ================================================== PCM to Opus frames
InitEncode ==
    /\ MediaIdle
    /\ BesideEncodeIdle
    /\ \E len \in 0..MaxPcmBytes : enc = NewEncode(len)

\* One turn of the loop at base.py 126-142 (doubao.py 121-133).
EncodeWindow ==
    LET chunk == Pad(Slice(enc.raw_data, enc.i, frame_size * 2)) IN
    /\ enc.pc = "loop"
    /\ enc.i < Len(enc.raw_data)
    /\ enc' = [enc EXCEPT !.i = @ + frame_size * 2,
                          !.calls = Append(@, [pcm |-> chunk,
                                               frame_size |-> frame_size])]
    /\ UNCHANGED <<mediaVars, besideEncode>>

\* range() is exhausted: the frames are returned (line 147).
EncodeReturn ==
    /\ enc.pc = "loop"
    /\ enc.i >= Len(enc.raw_data)
    /\ enc' = [enc EXCEPT !.pc = "done"]
    /\ UNCHANGED <<mediaVars, besideEncode>>

NextEncode == EncodeWindow \/ EncodeReturn

SpecEncode == InitEncode /\ [][NextEncode]_vars

\* ========================================================== change_role
InitRoleSwitch ==
    /\ MediaIdle
    /\ BesideRoleSwIdle
    /\ \E kind \in ConnKinds : rolesw = NewRoleSwitch(kind)

has_change_system_prompt(kind) == kind = "ConnectionHandler"
has_change_tts_voice(kind) == kind = "ConnectionHandler"

\* change_role, the branch for a role found in the table (lines 89-107),
\* on a connection that has change_system_prompt.
StoredRoleBranch(s, role, role_name) ==
    [prompt |-> PromptFor(role, role_name),
     voice |-> IF VoiceOf(role) # None /\ has_change_tts_voice(s.kind)
               THEN VoiceOf(role) ELSE s.voice,
     response |-> "ack", raised |-> FALSE]

\* change_role, the branch that uses the prompts dictionary (lines
\* 113-128). conn.change_system_prompt at line 124 is outside every try.
PromptsBranch(s, role, role_name) ==
    IF role \notin PromptRoles
    THEN [prompt |-> s.prompt, voice |-> s.voice,
          response |-> "unsupported", raised |-> FALSE]
    ELSE IF has_change_system_prompt(s.kind)
         THEN [prompt |-> PromptFor(role, role_name), voice |-> s.voice,
               response |-> "ack", raised |-> FALSE]
         ELSE [prompt |-> s.prompt, voice |-> s.voice,
               response |-> None, raised |-> TRUE]

\* change_role (lines 76-128). An AttributeError of line 93 is caught at
\* line 108 and the function goes on with the prompts dictionary.
change_role(s, role, role_name, use_role_storage) ==
    IF use_role_storage /\ role \in StoredRoles
          /\ has_change_system_prompt(s.kind)
    THEN StoredRoleBranch(s, role, role_name)
    ELSE PromptsBranch(s, role, role_name)

\* The function call of a role-switch intent and what follows it in
\* chat_with_function_calling (webrtc_connection.py 236-251): a reply text
\* is handed to speak_and_play with the prompt and voice as they are then.
RoleSwitch(role, role_name, use_role_storage) ==
    LET r == change_role(rolesw, role, role_name, use_role_storage) IN
    /\ Len(rolesw.handed) < MaxRoleSwitches
    /\ rolesw' = [rolesw EXCEPT
          !.prompt = r.prompt, !.voice = r.voice,
          !.handed = Append(@,
              [role |-> role, role_name |-> role_name,
               known |-> (use_role_storage /\ role \in StoredRoles)
                             \/ role \in PromptRoles,
               voiced |-> use_role_storage /\ VoiceOf(role) # None,
               response |-> r.response,
               prompt |-> r.prompt, voice |-> r.voice])]
    /\ UNCHANGED <<mediaVars, besideRoleSw>>

NextRoleSwitch ==
    \E role \in RoleNames, role_name \in AssistantNames,
       use_role_storage \in BOOLEAN :
        RoleSwitch(role, role_name, use_role_storage)

SpecRoleSwitch == InitRoleSwitch /\ [][NextRoleSwitch]_vars

\* ======================================================= the role table
InitTable ==
    /\ MediaIdle
    /\ BesideTableIdle
    /\ \E storage \in Storages, has_default \in BOOLEAN :
           table = NewTable(storage, has_default)

\* get_role (role_storage.py 133-135, test_role_module.py 82-84).
get_role(t, role_id) ==
    IF role_id \in DOMAIN t.roles THEN t.roles[role_id] ELSE NoRole

\* A variant of _save_roles that writes the table as it is.
save_roles_as_given(t) == t

\* _save_roles. RoleStorage (lines 112-127) first sets is_default of every
\* role object in the table to whether it is the default role, if there is
\* a default role; SimpleRoleStorage (lines 68-76) only writes the file.
save_roles(t) ==
    IF t.storage = "RoleStorage" /\ t.default_role_id # None
    THEN [t EXCEPT !.roles =
            [x \in DOMAIN t.roles |->
                [t.roles[x] EXCEPT !.is_default =
                    IF x = t.default_role_id THEN "true" ELSE "false"]]]
    ELSE t

Put(t, role_id, role_data) ==
    [t EXCEPT !.roles = [x \in DOMAIN t.roles \cup {role_id} |->
                            IF x = role_id THEN role_data ELSE t.roles[x]]]

Called(t, op, role_id, role_data, ok) ==
    [t EXCEPT !.ops = table.ops + 1,
              !.last = [op |-> op, role_id |-> role_id,
                        role_data |-> role_data, ok |-> ok,
                        before |-> table.roles]]

\* add_role (role_storage.py 150-154, test_role_module.py 104-110).
add_role(role_id, role_data) ==
    /\ table.ops < MaxRoleOps
    /\ table' = Called(save_roles(Put(table, role_id, role_data)),
                       "add", role_id, role_data, TRUE)
    /\ UNCHANGED <<mediaVars, besideTable>>

\* update_role (role_storage.py 156-163, test_role_module.py 112-119).
update_role(role_id, role_data) ==
    /\ table.ops < MaxRoleOps
    /\ table' = IF role_id \notin DOMAIN table.roles
                THEN Called(table, "update", role_id, role_data, FALSE)
                ELSE Called(save_roles(Put(table, role_id, role_data)),
                            "update", role_id, role_data, TRUE)
    /\ UNCHANGED <<mediaVars, besideTable>>

\* delete_role (role_storage.py 165-176, test_role_module.py 121-128);
\* RoleStorage refuses to delete the default role.
delete_role(role_id) ==
    /\ table.ops < MaxRoleOps
    /\ table' =
         IF \/ role_id \notin DOMAIN table.roles
            \/ table.storage = "RoleStorage"
                  /\ role_id = table.default_role_id
         THEN Called(table, "delete", role_id, NoRole, FALSE)
         ELSE Called(save_roles([table EXCEPT !.roles =
                        [x \in DOMAIN table.roles \ {role_id} |->
                            table.roles[x]]]),
                     "delete", role_id, NoRole, TRUE)
    /\ UNCHANGED <<mediaVars, besideTable>>

\* set_default_role (role_storage.py 178-185, test_role_module.py 130-139).
set_default_role(role_id) ==
    /\ table.ops < MaxRoleOps
    /\ table' =
         IF role_id \notin DOMAIN table.roles
         THEN Called(table, "set_default", role_id, NoRole, FALSE)
         ELSE IF table.storage = "RoleStorage"
              THEN Called(save_roles(
                              [table EXCEPT !.default_role_id = role_id]),
                          "set_default", role_id, NoRole, TRUE)
              ELSE Called([table EXCEPT !.roles =
                              [x \in DOMAIN table.roles |->
                                 [table.roles[x] EXCEPT !.is_default =
                                    IF x = role_id THEN "true" ELSE "false"]]],
                          "set_default", role_id, NoRole, TRUE)
    /\ UNCHANGED <<mediaVars, besideTable>>

NextTable ==
    \E role_id \in RoleIds :
        \/ \E role_data \in RoleDatas : add_role(role_id, role_data)
        \/ \E role_data \in RoleDatas : update_role(role_id, role_data)
        \/ delete_role(role_id)
        \/ set_default_role(role_id)

SpecTable == InitTable /\ [][NextTable]_vars

\* ============================================ the audio track, frame by frame
InitTrack ==
    /\ MediaIdle
    /\ BesideTrackIdle
    /\ trk = NewTrack

\* What one call of process_audio_frame does with its frame:
\*   kept          data appended to asr_audio (line 289 or 324), returns
\*   nodata        no audio data found, nothing appended, returns
\*   raise_before  an exception before line 289 (say frame.format.name of
\*                 lines 138, 186), caught at line 561
\*   raise_after   an exception after the append (the VAD steps from line
\*                 473 on), caught at line 561
\*   dispatch      data appended, condition1 or condition2 holds and the
\*                 call suspends in the awaited ASR call of line 400
CallbackOutcomes == {"kept", "nodata", "raise_before", "raise_after",
                     "dispatch"}

\* A variant that puts the frame's data in front of the list.
asr_audio_prepend(buf, frame) == <<frame>> \o buf

\* conn.asr_audio.append (audio_frame_handler.py line 289, line 324).
asr_audio_append(buf, frame) == Append(buf, frame)

\* frame_callback (connection_manager.py 294-301) around
\* process_audio_frame, from its entry to its first suspension or its
\* return. No await precedes the append: get_stats (lines 168-176) runs as
\* a task of its own.
on_frame(s, t, frame, outcome) ==
    [s EXCEPT
       !.passed = Append(@, frame),
       !.asr_audio = IF outcome \in {"kept", "raise_after", "dispatch"}
                     THEN asr_audio_append(@, frame) ELSE @,
       !.raised = IF outcome \in {"raise_before", "raise_after"}
                  THEN @ \cup {frame} ELSE @,
       !.pc[t] = IF outcome = "dispatch" THEN "asr" ELSE "idle"]

\* AudioTrackProcessor._receive_frames, one turn of the loop (lines 46-57):
\* track.recv(), _queue.put (the queue has no maxsize, so put does not
\* wait), then the callback.
ReceiveFrames(outcome) ==
    /\ trk.pc["rx"] = "idle"
    /\ trk.next < MaxTrackFrames
    /\ LET frame == trk.next + 1 IN
       trk' = on_frame([trk EXCEPT !.next = frame,
                                   !.queue = Append(@, frame)],
                       "rx", frame, outcome)
    /\ UNCHANGED <<mediaVars, besideTrack>>

\* AudioTrackProcessor.recv with _queue empty (lines 73-83): it reads the
\* track itself and calls the callback for that frame.
RecvFromTrack(outcome) ==
    /\ trk.pc["recv"] = "idle"
    /\ trk.queue = <<>>
    /\ trk.next < MaxTrackFrames
    /\ LET frame == trk.next + 1 IN
       trk' = on_frame([trk EXCEPT !.next = frame], "recv", frame, outcome)
    /\ UNCHANGED <<mediaVars, besideTrack>>

\* AudioTrackProcessor.recv with a frame on _queue (lines 84-86): the frame
\* is taken from the queue and returned, no callback.
RecvFromQueue ==
    /\ trk.pc["recv"] = "idle"
    /\ trk.queue # <<>>
    /\ trk' = [trk EXCEPT !.queue = Tail(@)]
    /\ UNCHANGED <<mediaVars, besideTrack>>

\* The awaited ASR call returns to the suspended callback, which clears
\* asr_audio (audio_frame_handler.py lines 468-471) and returns.
TrackAsrReturn(t) ==
    /\ trk.pc[t] = "asr"
    /\ trk' = [trk EXCEPT !.asr_audio = <<>>, !.pc[t] = "idle"]
    /\ UNCHANGED <<mediaVars, besideTrack>>

NextTrack ==
    \/ \E outcome \in CallbackOutcomes : ReceiveFrames(outcome)
    \/ \E outcome \in CallbackOutcomes : RecvFromTrack(outcome)
    \/ RecvFromQueue
    \/ \E t \in Tasks : TrackAsrReturn(t)

SpecTrack == InitTrack /\ [][NextTrack]_vars

\* ======================================================= VADProvider.is_vad
InitVad ==
    /\ MediaIdle
    /\ BesideVadIdle
    /\ vad = NewVad

\* time.time() moves on.
VadTick ==
    /\ vad.now < StartMs + MaxTicks * TickMs
    /\ vad' = [vad EXCEPT !.now = @ + TickMs]
    /\ UNCHANGED <<mediaVars, besideVad>>

\* is_vad, lines 27-52: the PCM is added to client_audio_buffer.
IsVadEnter(bytes) ==
    /\ vad.pc = "idle"
    /\ vad.calls < MaxVadCalls
    /\ vad' = [vad EXCEPT !.client_audio_buffer = @ + bytes,
                          !.have_voice_local = FALSE,
                          !.calls = @ + 1,
                          !.pc = "loop"]
    /\ UNCHANGED <<mediaVars, besideVad>>

\* A variant of the test at line 73 that takes any silence as long enough.
SilenceAlwaysLongEnough(stop_duration) == stop_duration >= 0

\* silero.py line 73.
SilenceLongEnough(stop_duration) == stop_duration >= silence_threshold_ms

\* One turn of the loop at lines 53-77 on a 512-sample window; is_speech
\* is speech_prob >= vad_threshold.
VadWindow(is_speech) ==
    /\ vad.pc = "loop"
    /\ vad.client_audio_buffer >= WindowBytes
    /\ vad' = [vad EXCEPT
         !.client_audio_buffer = @ - WindowBytes,
         !.have_voice_local = is_speech,
         !.client_voice_stop =
             IF vad.client_have_voice /\ ~is_speech
                /\ SilenceLongEnough(vad.now - vad.client_have_voice_last_time)
             THEN TRUE ELSE @,
         !.client_have_voice = IF is_speech THEN TRUE ELSE @,
         !.client_have_voice_last_time = IF is_speech THEN vad.now ELSE @,
         !.window = IF is_speech THEN "speech" ELSE "silence",
         !.spoken_at = IF is_speech THEN vad.now ELSE @]
    /\ UNCHANGED <<mediaVars, besideVad>>

\* is_vad, line 79: less than one window is left.
IsVadReturn ==
    /\ vad.pc = "loop"
    /\ vad.client_audio_buffer < WindowBytes
    /\ vad' = [vad EXCEPT !.pc = "idle"]
    /\ UNCHANGED <<mediaVars, besideVad>>

\* handleTextMessage, listen start (textHandle.py lines 29-31).
VadListenStart ==
    /\ vad.pc = "idle"
    /\ vad' = [vad EXCEPT !.client_have_voice = TRUE,
                          !.client_voice_stop = FALSE]
    /\ UNCHANGED <<mediaVars, besideVad>>

\* reset_vad_states (webrtc_connection.py lines 129-134).
VadReset ==
    /\ vad.pc = "idle"
    /\ vad' = [vad EXCEPT !.client_have_voice = FALSE,
                          !.client_voice_stop = FALSE]
    /\ UNCHANGED <<mediaVars, besideVad>>

NextVad ==
    \/ VadTick
    \/ \E bytes \in PcmSizes : IsVadEnter(bytes)
    \/ \E is_speech \in BOOLEAN : VadWindow(is_speech)
    \/ IsVadReturn
    \/ VadListenStart
    \/ VadReset

SpecVad == InitVad /\ [][NextVad]_vars

\* =================================================== sendAudio, timed
InitPace ==
    /\ MediaIdle
    /\ BesidePaceIdle
    /\ \E t \in StartTimes : pace = [NewPace EXCEPT !.now = t]

\* The time an await takes beyond what it was asked for.
Stalls == {k * StepMs : k \in 0..MaxStallSteps}

\* websocket.send(audios[i]) (lines 46 and 67) has taken `stall` ms; then
\* play_position += frame_duration.
PaceSent(p, stall) ==
    LET q == [p EXCEPT !.sent_at = Append(@, p.now),
                       !.now = @ + stall,
                       !.play_position = @ + frame_duration,
                       !.i = @ + 1]
    IN [q EXCEPT !.pc = IF q.i < Min(PreBufferFrames, q.n) THEN "pre"
                        ELSE IF q.i < q.n THEN "loop" ELSE "idle"]

\* sendAudio lines 34-44 for a list of n frames.
PaceStart(n) ==
    /\ pace.pc = "idle"
    /\ pace.n = 0
    /\ pace' = [pace EXCEPT !.start_time = pace.now, !.n = n, !.pc = "pre"]
    /\ UNCHANGED <<mediaVars, besidePace>>

\* sendAudio lines 45-47: a pre-buffered frame.
PacePre(stall) ==
    /\ pace.pc = "pre"
    /\ pace' = PaceSent(pace, stall)
    /\ UNCHANGED <<mediaVars, besidePace>>

\* A variant of lines 61-62 with a cap of one frame.
CappedAtOneFrame(delay) ==
    IF delay > frame_duration THEN frame_duration ELSE delay

\* sendAudio lines 61-62.
Capped(delay) == IF delay > MaxDelayMs THEN MaxDelayMs ELSE delay

\* sendAudio lines 50-67, one turn of the second loop up to its await:
\* return on client_abort, sleep when the frame is not due, else send.
PaceLoop(client_abort, stall) ==
    LET expected_time == pace.start_time + pace.play_position
        delay == Capped(expected_time - pace.now)
    IN
    /\ pace.pc = "loop"
    /\ pace' = IF client_abort THEN [pace EXCEPT !.pc = "idle"]
               ELSE IF delay > 0
               THEN [pace EXCEPT !.pc = "sleep", !.wake_at = pace.now + delay,
                                 !.waits = Append(@, delay)]
               ELSE PaceSent(pace, stall)
    /\ UNCHANGED <<mediaVars, besidePace>>

\* asyncio.sleep(delay) returns, `late` ms after the delay has passed, and
\* the frame is sent (lines 65-68).
PaceWake(late, stall) ==
    /\ pace.pc = "sleep"
    /\ pace' = PaceSent([pace EXCEPT !.now = pace.wake_at + late], stall)
    /\ UNCHANGED <<mediaVars, besidePace>>

NextPace ==
    \/ \E n \in 1..MaxPaceFrames : PaceStart(n)
    \/ \E stall \in Stalls : PacePre(stall)
    \/ \E client_abort \in BOOLEAN, stall \in Stalls :
           PaceLoop(client_abort, stall)
    \/ \E late \in Stalls, stall \in Stalls : PaceWake(late, stall)

SpecPace == InitPace /\ [][NextPace]_vars

\* ============================================ sending the answer
\* handle_offer has reached line 555 with the answer built. Without an
\* entry in webrtc_connections there is no websocket field.
InitAnswer ==
    /\ MediaIdle
    /\ BesideAnswerIdle
    /\ \E websocket \in {None} \cup Sockets, has_conn \in BOOLEAN,
          conn_websocket \in {None} \cup Sockets, open \in SUBSET Sockets :
           /\ ~has_conn => conn_websocket = None
           /\ ans = NewAnswer(websocket, has_conn, conn_websocket, open)

\* The messages connected and answer sent one after the other to an open
\* socket (lines 572-591, 603-622, 1187-1214): the answer goes out only if
\* the connected message did.
BothSent(connected_ok, answer_ok) == connected_ok /\ answer_ok

\* handle_offer lines 555-595: the socket the offer came on.
AnswerPath1(connected_ok, answer_ok) ==
    LET ok == /\ ans.websocket # None
              /\ ans.websocket \in ans.open
              /\ BothSent(connected_ok, answer_ok)
    IN
    /\ ans.pc = "path1"
    /\ ans' = [ans EXCEPT !.pc = "path2",
                          !.sent_answer = ok,
                          !.delivered = IF ok THEN @ + 1 ELSE @]
    /\ UNCHANGED <<mediaVars, besideAnswer>>

\* handle_offer lines 597-625: the socket of the client's connection object.
AnswerPath2(connected_ok, answer_ok) ==
    LET ok == /\ ~ans.sent_answer
              /\ ans.conn
              /\ ans.conn_websocket \in ans.open
              /\ BothSent(connected_ok, answer_ok)
    IN
    /\ ans.pc = "path2"
    /\ ans' = [ans EXCEPT !.pc = "path3",
                          !.sent_answer = @ \/ ok,
                          !.delivered = IF ok THEN @ + 1 ELSE @]
    /\ UNCHANGED <<mediaVars, besideAnswer>>

\* handle_offer lines 628-676: the connection object is created if it is
\* missing and takes the offer's socket if its own is not open; the answer
\* is sent directly (lines 645-660); then, sent or not, the answer is
\* stored as pending_answer (line 666) and, with the socket open, the retry
\* task is created (lines 671-673).
AnswerPath3(answer_ok) ==
    LET w == IF ans.websocket # None
                /\ (ans.conn_websocket = None
                      \/ ans.conn_websocket \notin ans.open)
             THEN ans.websocket ELSE ans.conn_websocket
        ok == w \in ans.open /\ answer_ok
    IN
    /\ ans.pc = "path3"
    /\ ans' = IF ans.sent_answer THEN [ans EXCEPT !.pc = "done"]
              ELSE [ans EXCEPT !.pc = "done",
                               !.conn = TRUE,
                               !.conn_websocket = w,
                               !.sent_answer = ok,
                               !.delivered = IF ok THEN @ + 1 ELSE @,
                               !.pending_answer = TRUE,
                               !.task = IF w \in ans.open THEN "try" ELSE @]
    /\ UNCHANGED <<mediaVars, besideAnswer>>

\* _retry_send_answer: the entry tests (lines 1149-1159) and one pass of
\* the loop (lines 1178-1231) up to its return or its sleep.
AnswerRetryPass(connected_ok, answer_ok) ==
    /\ ans.task = "try"
    /\ ans' = IF ~ans.pending_answer THEN [ans EXCEPT !.task = "done"]
              ELSE IF ans.conn_websocket \in ans.open
                      /\ BothSent(connected_ok, answer_ok)
              THEN [ans EXCEPT !.task = "done", !.pending_answer = FALSE,
                               !.delivered = @ + 1]
              ELSE [ans EXCEPT !.task = "sleep"]
    /\ UNCHANGED <<mediaVars, besideAnswer>>

\* asyncio.sleep(retry_interval) ends; retries += 1 and the loop test.
AnswerRetrySleep ==
    /\ ans.task = "sleep"
    /\ ans' = [ans EXCEPT !.retries = @ + 1,
                          !.task = IF ans.retries + 1 < MaxRetries
                                   THEN "try" ELSE "failed"]
    /\ UNCHANGED <<mediaVars, besideAnswer>>

\* associate_websocket (the definition at line 911) for a socket of the
\* client: the connection object takes it if its own is not open, and a
\* pending answer is sent and cleared (lines 946-962).
AnswerAssociate(s, answer_ok) ==
    LET w == IF ans.conn_websocket = None \/ ans.conn_websocket \notin ans.open
             THEN s ELSE ans.conn_websocket
    IN
    /\ ans.pc = "done"
    /\ ans.associates < MaxAssociates
    /\ s \in ans.open
    /\ ans' = IF ans.pending_answer /\ answer_ok
              THEN [ans EXCEPT !.associates = @ + 1, !.conn = TRUE,
                               !.conn_websocket = w,
                               !.pending_answer = FALSE,
                               !.delivered = @ + 1]
              ELSE [ans EXCEPT !.associates = @ + 1, !.conn = TRUE,
                               !.conn_websocket = w]
    /\ UNCHANGED <<mediaVars, besideAnswer>>

\* A socket of the client closes.
AnswerSocketCloses(s) ==
    /\ s \in ans.open
    /\ ans' = [ans EXCEPT !.open = @ \ {s}]
    /\ UNCHANGED <<mediaVars, besideAnswer>>

NextAnswer ==
    \/ \E connected_ok \in BOOLEAN, answer_ok \in BOOLEAN :
           \/ AnswerPath1(connected_ok, answer_ok)
           \/ AnswerPath2(connected_ok, answer_ok)
           \/ AnswerRetryPass(connected_ok, answer_ok)
    \/ \E answer_ok \in BOOLEAN : AnswerPath3(answer_ok)
    \/ AnswerRetrySleep
    \/ \E s \in Sockets, answer_ok \in BOOLEAN : AnswerAssociate(s, answer_ok)
    \/ \E s \in Sockets : AnswerSocketCloses(s)

SpecAnswer == InitAnswer /\ [][NextAnswer]_vars

\* ============================= registries under client-chosen ids
InitRegistry ==
    /\ MediaIdle
    /\ BesideRegistryIdle
    /\ registry = NewRegistry

\* ConnectionManager.close_connection (lines 1112-1136) on the registries g.
close_registered(g, client_id) ==
    LET pc == g.peer_connections[client_id] IN
    [g EXCEPT !.closed = IF pc # None THEN @ \cup {pc} ELSE @,
              !.peer_connections[client_id] = None,
              !.audio_processors[client_id] = None,
              !.webrtc_connections[client_id] = None,
              !.data_channels =
                  {ch \in @ : ~startswith(ch.key, KeyPrefix(client_id))}]

\* handle_websocket lines 41-95: the client id is the one the request
\* brings or a fresh one; the websocket and a new session are registered
\* under it, and associate_websocket gives the socket to the client's
\* connection object unless that one holds an open socket.
RequestConnect(r, brought) ==
    LET client_id == IF brought = None THEN r ELSE brought
        held == registry.webrtc_connections[client_id]
    IN
    /\ registry.state[r] = "new"
    /\ registry' = [registry EXCEPT
           !.state[r] = "open",
           !.id[r] = client_id,
           !.seq[r] = Cardinality({x \in Requests : registry.state[x] # "new"}) + 1,
           !.websockets[client_id] = r,
           !.sessions[r] = client_id,
           !.webrtc_connections[client_id] =
               IF held = None \/ registry.state[held] # "open" THEN r ELSE held]
    /\ UNCHANGED <<mediaVars, besideRegistry>>

\* An offer on the request's socket, without a client id or a session id
\* of its own: create_peer_connection (lines 70-86) closes what the client
\* id has and registers the new peer connection.
RequestOffer(r) ==
    LET client_id == registry.id[r]
        g == IF registry.peer_connections[client_id] # None
             THEN close_registered(registry, client_id) ELSE registry
    IN
    /\ registry.state[r] = "open"
    /\ r \notin registry.made
    /\ registry' = [g EXCEPT !.peer_connections[client_id] = r,
                        !.made = @ \cup {r}]
    /\ UNCHANGED <<mediaVars, besideRegistry>>

\* on_track of a peer connection that is not closed (lines 254-312).
RequestTrack(r) ==
    /\ r \in registry.made \ registry.closed
    /\ registry.audio_processors[registry.id[r]] # r
    /\ registry' = [registry EXCEPT !.audio_processors[registry.id[r]] = r]
    /\ UNCHANGED <<mediaVars, besideRegistry>>

\* on_datachannel of a peer connection that is not closed (lines 119-123).
RequestDataChannel(r, label) ==
    LET key == ChannelKey(registry.id[r], label) IN
    /\ r \in registry.made \ registry.closed
    /\ [key |-> key, pc |-> r, client |-> registry.id[r]] \notin registry.data_channels
    /\ registry' = [registry EXCEPT !.data_channels =
                   {ch \in @ : ch.key # key}
                     \cup {[key |-> key, pc |-> r, client |-> registry.id[r]]}]
    /\ UNCHANGED <<mediaVars, besideRegistry>>

\* handle_websocket lines 97-119: the socket closes, the message loop ends
\* and the finally block runs.
RequestCloses(r) ==
    LET client_id == registry.id[r]
        g == close_registered(registry, client_id)
    IN
    /\ registry.state[r] = "open"
    /\ registry' = [g EXCEPT
           !.state[r] = "done",
           !.websockets[client_id] = None,
           !.sessions = [x \in Requests |->
                            IF @[x] = client_id THEN None ELSE @[x]]]
    /\ UNCHANGED <<mediaVars, besideRegistry>>

NextRegistry ==
    \/ \E r \in Requests, brought \in {None} \cup BroughtIds :
           RequestConnect(r, brought)
    \/ \E r \in Requests :
           \/ RequestOffer(r)
           \/ RequestTrack(r)
           \/ RequestCloses(r)
    \/ \E r \in Requests, label \in Labels : RequestDataChannel(r, label)

SpecRegistry == InitRegistry /\ [][NextRegistry]_vars

Sent(c, m) == \E i \in 1..Len(hist[c].out) : hist[c].out[i] = m

\* C1: at most one ASR dispatch of a session is awaited at any time.
AtMostOneAsrInFlight ==
    \A c \in Devices : Cardinality({t \in Tasks : proc[c].pc[t] = "asr"}) <= 1

\* C2: the list handed to speech_to_text is exactly the inbound chunks
\* appended to asr_audio since the previous dispatch, in arrival order.
AsrGetsExactlyTheChunks ==
    \A c \in Devices : hist[c].last.valid => hist[c].last.exact

\* C8: once the worker has taken the chat call for a transcript that no
\* intent hook claimed, the reply has been played out up to its tts stop.
ReplyReachesClient ==
    \A c \in Devices : hist[c].chat = "called" => Sent(c, "tts_stop")

\* C9: a dispatch made while the client's listen mode is manual was asked
\* for by the client (listen stop or stop command), not derived by the server.
ManualDispatchOnlyOnRequest ==
    \A c \in Devices :
        hist[c].last.valid /\ hist[c].last.mode = "manual"
            => hist[c].last.explicit

\* C10: handling a listen stop while the listen mode is auto leaves
\* client_voice_stop and every stop request flag as they were.
AutoIgnoresListenStop ==
    [][\A d \in Devices, lookup \in BOOLEAN :
          HandleListenStop(d, lookup) /\ ws[d].client_listen_mode = "auto"
              => /\ ws'[d].client_voice_stop = ws[d].client_voice_stop
                 /\ stop_requested' = stop_requested
                 /\ conn' = conn]_vars

\* A call of process_audio_frame for session c that reaches the dispatch
\* branch (condition1 or condition2 holds after steps 5 and 6).
AtDispatch(c) ==
    ApplyGlobalStop(ChunkHeuristic(AppendInbound(conn[c], counter'[c], track[c]),
                                   counter'[c]), c)

DispatchStep(c) ==
    /\ counter'[c] = counter[c] + 1
    /\ condition1(AtDispatch(c)) \/ condition2(AtDispatch(c))

\* C11: in manual mode, a stop request (listen stop, or the stop command on
\* the data channel) that finds audio in the session's asr_audio starts the
\* ASR dispatch of that audio itself, with no further audio frame.
StopDispatchesBufferedAudio ==
    [][\A d \in Devices :
          /\ (\E lookup \in BOOLEAN : HandleListenStop(d, lookup)) \/ DataChannelStop(d)
          /\ ws[d].client_listen_mode = "manual"
          /\ CollectForAsr(conn[d].asr_audio) # <<>>
          => \E t \in Tasks : proc'[d].pc[t] = "asr"]_vars

\* C12: a dispatch is made only after an end event (a VAD verdict or a
\* client's stop request has set client_voice_stop, or a stop request is
\* pending) or with more than 60 s of audio in asr_audio.
SizeCapChunks == (60 * 1000) \div 60   \* 60 s of 60 ms packets

DispatchOnlyOnEndEventOrCap ==
    [][\A c \in Devices :
          DispatchStep(c)
              => \/ conn[c].client_voice_stop
                 \/ conn[c].client_voice_stop_requested
                 \/ GlobalStopHits(c)
                 \/ Len(AtDispatch(c).asr_audio) > SizeCapChunks]_vars

\* C13: when speech_to_text returns "" (from the provider, or at once for a
\* list without bytes), the step sends nothing, starts no chat and leaves
\* the session idle: asr_audio empty, client_have_voice and
\* client_voice_stop false, asr_server_receive true.
EmptyTranscriptStep(c) ==
    \/ \E t \in Tasks : AsrReturn(c, t, "")
    \/ DispatchStep(c) /\ CollectForAsr(AtDispatch(c).asr_audio) = <<>>

EmptyTranscriptReturnsToIdle ==
    [][\A c \in Devices :
          EmptyTranscriptStep(c)
              => /\ hist'[c].out = hist[c].out
                 /\ hist'[c].chat = hist[c].chat
                 /\ conn'[c].asr_audio = <<>>
                 /\ ~conn'[c].client_have_voice
                 /\ ~conn'[c].client_voice_stop
                 /\ conn'[c].asr_server_receive]_vars

\* C13 witness: a provider call for a non-empty list has returned "" and
\* the session is idle.
EmptyTranscriptSeen ==
    \E c \in Devices :
        /\ hist[c].asr = "empty"
        /\ hist[c].last.valid /\ hist[c].last.some
        /\ \A t \in Tasks : proc[c].pc[t] = "idle"
        /\ conn[c].asr_audio = <<>> /\ conn[c].asr_server_receive

\* C14: a listen detect with a text sends stt with the text stripped of
\* punctuation and later tts stop, and starts no chat, when the stripped
\* text is one of config.wakeup_words and enable_greeting is false; in every
\* other case it starts one chat with the stripped text and sends nothing.
NoPunct(text) == SelectSeq(text, LAMBDA ch : ch # "!")

NewOut == SubSeq(wsout', Len(wsout) + 1, Len(wsout'))

DetectWakewordOrChat ==
    [][\A d \in Devices, text \in RawTexts :
          HandleListenDetect(d, TRUE, text)
              => IF NoPunct(text) \in config.wakeup_words /\ ~config.enable_greeting
                 THEN /\ Len(NewOut) >= 2
                      /\ NewOut[1] = [kind |-> "stt", text |-> NoPunct(text)]
                      /\ NewOut[Len(NewOut)] = [kind |-> "tts_stop", text |-> None]
                      /\ \A i \in 1..Len(NewOut) : NewOut[i].kind # "chat"
                 ELSE NewOut = <<[kind |-> "chat", text |-> NoPunct(text)]>>]_vars

\* C14 witness: one detect was answered as a wakeword (stt ... tts stop) and
\* another started a chat.
WakewordAndChatSeen ==
    \E i, j, k \in 1..Len(wsout) :
        /\ i < j
        /\ wsout[i].kind = "stt" /\ wsout[j].kind = "tts_stop"
        /\ wsout[k].kind = "chat"

\* ---------------------------------------------- reading the transport log
Idx == 1..Len(sent)
IsFrame(i) == sent[i].kind = "frame"
StopCount == Cardinality({i \in Idx : sent[i].kind = "stop"})

Strip(e) == [kind |-> e.kind, text |-> e.text, seg |-> e.seg, k |-> e.k]

\* What was sent for the segment with this index, in order.
SegLog(index) ==
    LET Mine(e) == e.seg = index /\ ~e.notify /\ e.kind # "stop"
        log == SelectSeq(sent, Mine)
    IN [i \in 1..Len(log) |-> Strip(log[i])]

\* sentence_start, frames 1..j in list order, sentence_end.
ExpectedLog(seg, j) ==
    <<[kind |-> "sentence_start", text |-> seg.text, seg |-> seg.index, k |-> 0]>>
    \o [k \in 1..j |-> [kind |-> "frame", text |-> None, seg |-> seg.index, k |-> k]]
    \o <<[kind |-> "sentence_end", text |-> seg.text, seg |-> seg.index, k |-> 0]>>

IsPrefix(a, b) == Len(a) <= Len(b) /\ \A i \in 1..Len(a) : a[i] = b[i]

\* The last control message before position i is the sentence_start of the
\* segment that frame i belongs to.
InOwnBracket(i) ==
    \E j \in 1..(i - 1) :
        /\ sent[j].kind = "sentence_start"
        /\ sent[j].seg = sent[i].seg
        /\ \A m \in (j + 1)..(i - 1) : IsFrame(m)

\* The last control message before position i is a sentence_start.
InBracket(i) ==
    \E j \in 1..(i - 1) :
        /\ sent[j].kind = "sentence_start"
        /\ \A m \in (j + 1)..(i - 1) : IsFrame(m)

\* The last control message before position i is a sentence_end.
AfterEnd(i) ==
    \E j \in 1..(i - 1) :
        /\ sent[j].kind = "sentence_end"
        /\ \A m \in (j + 1)..(i - 1) : IsFrame(m)

\* The next control message after position i is the tts stop, or none has
\* been sent yet and send_tts_message "stop" is still running.
BeforeStop(i) ==
    IF \E j \in (i + 1)..Len(sent) : ~IsFrame(j)
    THEN \E j \in (i + 1)..Len(sent) :
             /\ sent[j].kind = "stop"
             /\ \A m \in (i + 1)..(j - 1) : IsFrame(m)
    ELSE pacer.audio = NotifySound \/ pacer.pc = "stop"

\* C3: what is sent for a segment is its sentence_start with the segment
\* text, then its frames in list order, then its sentence_end with the same
\* text; the frames stop short of the whole list only after a barge-in.
SegmentOrder ==
    \A x \in 1..Len(reply.produced) :
        LET seg == reply.produced[x]
            log == SegLog(seg.index)
        IN \E j \in 0..seg.n :
               /\ IsPrefix(log, ExpectedLog(seg, j))
               /\ (log = ExpectedLog(seg, j) /\ j < seg.n => sess.client_abort)

SegmentPlayedInFull ==
    \E x \in 1..Len(reply.produced) :
        /\ reply.produced[x].n > PreBufferFrames
        /\ SegLog(reply.produced[x].index)
               = ExpectedLog(reply.produced[x], reply.produced[x].n)

NoFrameAfterAbort == \A i \in Idx : IsFrame(i) => ~sent[i].late

\* C6: once play-out of a segment has been interrupted by client_abort and
\* the pacer has nothing left to do, tts stop has been sent and both tts
\* indices are 0.
InterruptedPlayoutStops ==
    (/\ pacer.interrupted
     /\ pacer.pc = "idle"
     /\ audio_play_queue = <<>>
     /\ sess.llm_finish_task)
        => /\ StopCount >= 1
           /\ sess.tts_first_text_index = 0
           /\ sess.tts_last_text_index = 0

\* C7: when a reply that was not aborted has been played out to its last
\* segment and the LLM has signalled completion, tts stop has been sent
\* exactly once.
StopOnceWhenReplyDone ==
    (/\ ~sess.client_abort
     /\ sess.llm_finish_task
     /\ audio_play_queue = <<>>
     /\ pacer.pc = "idle"
     /\ pacer.done = Len(reply.produced))
        => StopCount = 1

\* C15: the session is closed by the pacer (or about to be) only if
\* close_after_chat is set and the tts stop message is already the last
\* thing sent.
LastSentIsStop == Len(sent) > 0 /\ sent[Len(sent)].kind = "stop"

ClosedOnlyAfterStop ==
    /\ pacer.pc = "close" => sess.close_after_chat /\ LastSentIsStop
    /\ sess.closed => sess.close_after_chat /\ StopCount >= 1

\* C15 witness: a session with close_after_chat has been closed after its
\* reply was played out.
ClosedAfterReply ==
    /\ sess.closed
    /\ \E i \in Idx : IsFrame(i)
    /\ LastSentIsStop

\* C16: once a socket's offer has been answered, every candidate received
\* on that socket for it, before or after the offer, has been added to the
\* peer connection made for the offer, whose remote description is set.
IceReachesPeerConnection ==
    \A s \in Sockets :
        sock[s].pc = "idle" /\ sock[s].mypc # NoPc /\ ~pcs[sock[s].mypc].closed
            => /\ pcs[sock[s].mypc].remote
               /\ sock[s].got \subseteq pcs[sock[s].mypc].added

\* C17: the answer to an offer whose SDP carries a=session-id carries the
\* same session-id.
AnswerCarriesSessionId ==
    \A s \in Sockets : \A i \in 1..Len(sigsent[s]) :
        sigsent[s][i].type = "answer" /\ sigsent[s][i].offer_session # None
            => sigsent[s][i].sdp.session_id = sigsent[s][i].offer_session

\* C18: an offer, flat or wrapped, gets as far as a peer connection of its
\* own: the handler goes on to create it (after closing an older one) and
\* to answer.
OfferShapesHandledAlike ==
    [][\A s \in Sockets, msg \in Offers :
          OfferStart(s, msg) => sock'[s].pc \in {"closing", "negotiate"}]_vars

\* C19: no client id has two peer connections that are not closed.
LivePcs(id) == {p \in 1..Len(pcs) : pcs[p].client = id /\ ~pcs[p].closed}

AtMostOneLivePcPerClient ==
    \A id \in ClientIds : Cardinality(LivePcs(id)) <= 1

\* C20: when a socket's transport has closed and handle_websocket has
\* returned, no registry map holds an entry of that socket's session: no
\* peer connection, data channel or audio processor made for its offers,
\* and no WebRTCConnection holding the socket.
Made(s, p) == p # NoPc /\ pcs[p].sock = s

NoRegistryEntryAfterClose ==
    \A s \in Sockets : sock[s].state = "done" =>
        \A id \in ClientIds :
            /\ ~Made(s, peer_connections[id])
            /\ ~Made(s, data_channels[id])
            /\ ~Made(s, audio_processors[id])
            /\ webrtc_connections[id] # s

\* C21: what audio_to_opus_data returns to a session is the audio of the
\* file the session asked it to convert: its own segment as its own to_tts
\* call synthesised it, or the stop notification sound.
OpusDataOfOwnSegment ==
    \A s \in TtsSessions : \A g \in job[s].got : g.opus_datas = g.asked

OutOfProtocol(h, msg) ==
    \/ msg.json = "invalid"
    \/ msg.type = None
    \/ msg.type = "bogus"
    \/ msg.type = (IF h = "websocket" THEN "ping" ELSE "iot")

\* C23: every message out of protocol has been answered with an error
\* control message, and no exception has left a handler.
OutOfProtocolAnsweredWithError ==
    \A h \in Handlers : \A i \in 1..Len(ctl[h]) :
        /\ ~ctl[h][i].did.raised
        /\ OutOfProtocol(h, ctl[h][i].msg) => ctl[h][i].did.reply = "error"

\* C24: when the ASR provider fails (raises, returns no text or only white
\* space), speech_to_text returns the empty transcript, the callback that
\* awaited it ends its dispatch without an error, and the session takes
\* audio again: asr_server_receive is true and the buffer is empty.
AsrFailureStaysInside ==
    [][/\ \A result \in ProviderResults \ {"text"} :
              speech_to_text(result) = ""
       /\ \A c \in Devices, t \in Tasks :
            AsrReturn(c, t, "")
                => /\ hist'[c].asr = "empty"
                   /\ proc'[c].pc[t] = "idle"
                   /\ conn'[c].asr_server_receive
                   /\ conn'[c].asr_audio = <<>>
                   /\ hist'[c].out = hist[c].out]_vars

\* C24 witness: on a session with a websocket the provider was called for
\* a list with audio and failed; the session is idle and receiving.
AsrFailureSurvived ==
    \E c \in Devices :
        /\ conn[c].websocket
        /\ hist[c].asr = "empty"
        /\ hist[c].last.valid /\ hist[c].last.some
        /\ \A t \in Tasks : proc[c].pc[t] = "idle"
        /\ conn[c].asr_server_receive

\* C25: for one segment to_tts calls text_to_speak at most 5 times, and it
\* returns None only after 5 calls have failed.
ToTtsGivesUpAfterFiveCalls ==
    \A s \in TtsSessions :
        /\ job[s].calls <= MaxRepeatTime
        /\ job[s].pc = "ret" /\ job[s].ret = NoFile
               => job[s].calls = MaxRepeatTime

\* C26: two passes in a row of the loop that retries sending the SDP answer
\* begin at most 20 ms apart, and the loop makes at most 10 passes.
RetryGapWithinPacingWindow ==
    /\ answer_retry.gap <= 20
    /\ answer_retry.attempts <= MaxRetries

\* C27: for raw_data of L bytes the encoder has been called ceil(L/640)
\* times when the loop ends (not at all for L = 0); every call got 640
\* bytes as 320 samples; call k got the bytes of raw_data from offset
\* 640(k-1) on, and only behind the end of raw_data, which can fall into
\* the last window only, the bytes are zero.
WindowsOf640BytesLastPadded ==
    enc.pc = "done" =>
        LET L == Len(enc.raw_data)
            n == Len(enc.calls)
        IN  /\ n = (L + 639) \div 640
            /\ \A k \in 1..n :
                  /\ Len(enc.calls[k].pcm) = 640
                  /\ enc.calls[k].frame_size = 320
                  /\ \A j \in 1..640 :
                        enc.calls[k].pcm[j] =
                            IF 640 * (k - 1) + j <= L
                            THEN enc.raw_data[640 * (k - 1) + j]
                            ELSE 0
            /\ \A k \in 1..(n - 1) : 640 * k <= L

\* C27 witness: 641 bytes were encoded as two windows, the second of them
\* one byte of audio and 639 bytes of padding.
ShortLastWindowEncoded ==
    /\ enc.pc = "done"
    /\ Len(enc.raw_data) = 641
    /\ Len(enc.calls) = 2
    /\ enc.calls[2].pcm[2] = 0

\* C28: whenever a role switch for a known role has handed its reply to
\* TTS, the session's prompt was the prompt of that role by then, and its
\* voice the voice of the role if the role has one.
RoleAppliedBeforeReply ==
    \A i \in 1..Len(rolesw.handed) :
        LET h == rolesw.handed[i] IN
        h.known /\ h.response # None
            => /\ h.prompt = PromptFor(h.role, h.role_name)
               /\ h.voiced => h.voice = VoiceOf(h.role)

\* What the latest call on the table has left, given the role object that
\* get_role is to return after add_role and update_role.
TableLaws(stored) ==
    LET c == table.last
        known == c.role_id \in DOMAIN c.before
    IN  /\ c.op = "add" => get_role(table, c.role_id) = stored
        /\ c.op = "update" /\ known => get_role(table, c.role_id) = stored
        /\ c.op = "delete" /\ c.ok => get_role(table, c.role_id) = NoRole
        /\ c.op \in {"update", "delete"} /\ ~known
               => ~c.ok /\ table.roles = c.before

\* C29 as stated: after add_role(id, d) and after update_role(id, d) of an
\* id in the table get_role(id) returns d; after a successful delete_role
\* it returns nothing; update_role and delete_role of an id not in the
\* table fail and leave the table as it was.
RoleTableReturnsWhatWasGiven == TableLaws(table.last.role_data)

\* C29 amended: the same, but RoleStorage with a default role returns d
\* with is_default set to whether id is the default role.
RoleTableReturnsWhatWasSaved ==
    TableLaws(IF table.storage = "RoleStorage" /\ table.default_role_id # None
              THEN [table.last.role_data EXCEPT !.is_default =
                       IF table.last.role_id = table.default_role_id
                       THEN "true" ELSE "false"]
              ELSE table.last.role_data)

\* C29 witness: RoleStorage has added a role given as the default one
\* beside its default role, and holds it as not the default.
RoleAddedBesideDefault ==
    /\ table.storage = "RoleStorage"
    /\ table.last.op = "add"
    /\ table.last.role_id = "r1"
    /\ table.last.role_data.is_default = "true"
    /\ table.default_role_id = "default"
    /\ get_role(table, "r1").is_default = "false"

ChunkAppendedDuringDispatchKept ==
    [][\A c \in Devices : \A t \in Tasks :
          (proc[c].pc[t] # "idle" /\ proc'[c].pc[t] = "idle") =>
              \A i \in 1..Len(hist[c].expected) :
                  \E j \in 1..Len(conn'[c].asr_audio) :
                      conn'[c].asr_audio[j].id = hist[c].expected[i]]_vars

\* ---------------------------------------------------------------- C32
\* C32: a frame that process_audio_frame handles while asr_server_receive
\* is false is still appended to asr_audio, and the step leaves
\* client_have_voice and client_voice_stop as the steps before the VAD (the
\* 15-chunk heuristic and the push-to-talk flag) set them: no VAD verdict
\* changes them. The one exception is a dispatch that ends within the same
\* call, which resets the session.
PausedFrame(c) == ~conn[c].asr_server_receive /\ counter'[c] # counter[c]

PausedFrameAppendedVadSilent ==
    [][\A c \in Devices : PausedFrame(c) =>
          LET cnt == counter'[c]
              chunk == [id |-> cnt, format |-> FormatOf(track[c])]
              s3 == ApplyGlobalStop(
                        ChunkHeuristic(
                            [conn[c] EXCEPT !.asr_audio = Append(@, chunk)],
                            cnt), c)
          IN \/ conn'[c] = FinishDispatch(conn[c])
             \/ /\ conn'[c].asr_audio = Append(conn[c].asr_audio, chunk)
                /\ conn'[c].client_have_voice = s3.client_have_voice
                /\ conn'[c].client_voice_stop = s3.client_voice_stop]_vars

\* A frame was appended behind the chunks of a dispatch that is still in
\* progress.
FrameAppendedWhilePaused ==
    \E c \in Devices :
        /\ ~conn[c].asr_server_receive
        /\ \E t \in Tasks : proc[c].pc[t] = "asr"
        /\ \E i \in 1..Len(conn[c].asr_audio) :
               conn[c].asr_audio[i].id = counter[c]
        /\ \A t \in Tasks : proc[c].pc[t] # "idle"

BufferedCandidatesDrainedByOffer ==
    [][\A s \in Sockets :
          (sock[s].pc = "negotiate" /\ sock'[s].pc = "idle"
              /\ sock'[s].mypc # NoPc /\ sock'[s].mypc = sock[s].cur.new) =>
          /\ pending_candidates'[SignalId(s)] = <<>>
          /\ pending_candidates'[sock[s].cur.cid] = <<>>
          /\ sock[s].got \subseteq pcs'[sock'[s].mypc].added]_vars

\* ---------------------------------------------------------------- C35
\* The frames sent so far of the audio with this segment index (of the
\* notification sound if notify), in the order they were sent.
FramesSentOf(index, notify) ==
    SelectSeq(sent, LAMBDA m : m.kind = "frame" /\ m.seg = index
                               /\ m.notify = notify)

\* C35: sendAudio sends the frames of its list once each and in list
\* order; when it has returned without leaving at the client_abort check
\* every frame of the segment has been sent; and it is at the abort check or
\* in a pacing sleep only after the first min(5, n) frames have been sent.
SendAudioSendsEachFrameInOrder ==
    /\ \A j \in 1..Len(reply.produced) :
           LET seg == reply.produced[j]
               f == FramesSentOf(seg.index, FALSE)
           IN /\ \A k \in 1..Len(f) : f[k].k = k
              /\ (seg.index <= pacer.done /\ ~pacer.interrupted) =>
                     Len(f) = seg.n
    /\ pacer.audio # NoSegment =>
           Len(FramesSentOf(pacer.audio.index, pacer.audio = NotifySound))
               = pacer.i
    /\ pacer.pc \in {"loop", "sleep"} =>
           pacer.i >= Min(PreBufferFrames, pacer.audio.n)

\* A long segment has been played to its end without leaving at the
\* client_abort check.
LongSegmentPlayedOut ==
    \E j \in 1..Len(reply.produced) :
        /\ reply.produced[j].n = LongSegment
        /\ reply.produced[j].index <= pacer.done
        /\ ~pacer.interrupted
        /\ Len(FramesSentOf(reply.produced[j].index, FALSE)) = LongSegment

\* ---------------------------------------------------------------- C36
\* C36: with t0 the clock when sendAudio starts and frames counted from 0,
\* no frame with index i >= 5 is sent before t0 + i * 20 ms, and no single
\* sleep is asked to last longer than 100 ms.
NoFrameAheadOfItsTime ==
    /\ \A k \in 1..Len(pace.sent_at) :
           k - 1 >= PreBufferFrames =>
               pace.sent_at[k] >= pace.start_time + (k - 1) * frame_duration
    /\ \A j \in 1..Len(pace.waits) : pace.waits[j] <= MaxDelayMs

\* The sixth frame has waited the full 100 ms and a later frame has been
\* sent after it.
FullWaitThenPaced ==
    /\ Len(pace.sent_at) > PreBufferFrames + 1
    /\ Len(pace.waits) > 1
    /\ pace.waits[1] = MaxDelayMs

\* ---------------------------------------------------------------- C37
\* C37: a step in which a call of process_audio_frame ends its dispatch,
\* with whatever outcome, leaves asr_server_receive true, asr_audio empty
\* and client_have_voice, client_voice_stop and
\* client_voice_stop_requested false; and asr_server_receive is false only
\* while some call is still inside its dispatch.
DispatchEnds(c) ==
    \/ \E t \in Tasks : proc[c].pc[t] # "idle" /\ proc'[c].pc[t] = "idle"
    \/ DispatchStep(c) /\ CollectForAsr(AtDispatch(c).asr_audio) = <<>>

DispatchEndResetsSession ==
    [][\A c \in Devices :
          /\ DispatchEnds(c) =>
                 /\ conn'[c].asr_server_receive
                 /\ conn'[c].asr_audio = <<>>
                 /\ ~conn'[c].client_have_voice
                 /\ ~conn'[c].client_voice_stop
                 /\ ~conn'[c].client_voice_stop_requested
          /\ ~conn'[c].asr_server_receive =>
                 \E t \in Tasks : proc'[c].pc[t] # "idle"]_vars

\* A dispatch has ended after a transcript was passed on, and the session
\* receives again.
DispatchWithTranscriptEnded ==
    \E c \in Devices :
        /\ hist[c].chat # "none"
        /\ \A t \in Tasks : proc[c].pc[t] = "idle"
        /\ conn[c].asr_server_receive
        /\ conn[c].asr_audio = <<>>

\* ---------------------------------------------------------------- C38
\* C38: the client is sent the answer of an offer at most once, over all of
\* handle_offer's send paths, the stored pending_answer and the retry task;
\* and once handle_offer has sent the answer, no pending_answer is stored.
AnswerSentOnce ==
    /\ ans.delivered <= 1
    /\ (ans.pc = "done" /\ ans.sent_answer) => ~ans.pending_answer

\* ---------------------------------------------------------------- C39
\* b connected under a's client id while a was open.
Newer(b, a) ==
    /\ b # a
    /\ registry.state[b] = "open"
    /\ registry.id[b] = registry.id[a]
    /\ registry.seq[b] > registry.seq[a]

\* C39: when a client id has connected to the signalling endpoint again
\* while its earlier signalling connection was open, the close of the
\* earlier connection leaves the newer connection's websocket registration
\* in place and leaves open the peer connection made through the newer
\* connection.
EarlierCloseSparesNewer ==
    [][\A a, b \in Requests :
          (RequestCloses(a) /\ Newer(b, a)) =>
              /\ (registry.websockets[registry.id[b]] = b
                    => registry'.websockets[registry.id[b]] = b)
              /\ (b \in registry.made \ registry.closed => b \notin registry'.closed)]_vars

\* ---------------------------------------------------------------- C40
\* C40: close_connection(c), as the close of a signalling connection of c
\* runs it, leaves the peer connection, audio processor, connection object
\* and data channels of every other client id as they were, also of a
\* client id that is c followed by an underscore and more.
CloseLeavesOtherClients ==
    [][\A r \in Requests :
          RequestCloses(r) =>
              \A d \in RegistryIds \ {registry.id[r]} :
                  /\ registry'.peer_connections[d] = registry.peer_connections[d]
                  /\ registry'.audio_processors[d] = registry.audio_processors[d]
                  /\ registry'.webrtc_connections[d] = registry.webrtc_connections[d]
                  /\ \A ch \in registry.data_channels :
                         ch.client = d => ch \in registry'.data_channels]_vars
====
